---- MODULE Spec2Model ----
(***************************************************************************)
(* Redis operator: the replication engine (controllers/redis) and the      *)
(* reconcile loop (controllers/redis_controller.go) as a state machine.    *)
(*                                                                         *)
(* The Redis servers are the environment.  A server has a role, the host   *)
(* it replicates from, a link flag (the master counts it as a connected    *)
(* replica), a replica priority and a replication offset.  The engine      *)
(* sees the servers only through PING, INFO REPLICATION and the REPLICAOF  *)
(* transaction.                                                            *)
(***************************************************************************)
EXTENDS Integers, Sequences, FiniteSets, Bags, TLC

\* ------------------------------------------------------------------ bounds
NumAddr == 3
MaxFailures == 1
\* attempts the backoff loop of Reconcile can repeat within DefaultFailoverTimeout
MaxRetries == 1

\* ------------------------------------------------------- program constants
MinimumFailoverSize == 2
Port == 6379

RoleMaster == "role:master"
RoleReplica == "role:slave"

Addr == 1..NumAddr
\* Address{}: the zero address, "NO ONE" when it is the target of replicaOf
NoAddr == 0
\* a host that is no pod of this cluster (the master that was lost)
Gone == NumAddr + 1

VARIABLES
  srv,      \* the Redis servers, by address
  failures, \* servers stopped and writes refused so far (bounded by MaxFailures)
  pc,       \* position of the running reconcile / engine call
  ins,      \* instances: the engine's instance records, in order
  mst,      \* Reconfigure's local `master': <<>> is nil, <<rec>> a pointer
  todo,     \* indices of ins whose goroutine of the running fan-out has not run yet
  errs,     \* the errors in the channel of the running fan-out, as a bag
  sent,     \* REPLICAOF transactions issued by the running reconcile
  err,      \* outcome of Reconfigure: "none" before it returns, "nil", or an error kind
  pods,     \* the cluster's pods, by name: IP, readiness, role label
  child,    \* the managed child resources, by position in Reconcile's list
  cmMaster, \* host of the replicaof directive in the ConfigMap (NoAddr: none)
  status,   \* the Redis object's status subresource
  podList,  \* the pods as listed by the running reconcile
  master,   \* Reconcile's local `master' address
  masterChan, \* the one-slot channel with the master pod's name
  result,   \* how the last reconcile returned, and from which step
  writes,   \* writes the running reconcile has sent to the orchestrator: <<kind, answer>>
  tries,    \* failed attempts of the running backoff loop
  conns,    \* clients of Redis servers the running reconcile holds open
  prevDone, \* the previous reconcile returned reconcile.Result{}, nil
  crashed,  \* the operator terminated in the middle of a failover
  report,   \* the INFO REPLICATION reports a single record has parsed, in order
  args,     \* the arguments of the generator or comparator call under check
  out       \* what that call returned

engineVars == <<pc, ins, mst, todo, errs, sent, err>>
k8sVars == <<pods, child, cmMaster, status>>
ctlVars == <<podList, master, masterChan, result, writes, tries>>
vars == <<srv, failures, pc, ins, mst, todo, errs, sent, err,
          pods, child, cmMaster, status, podList, master, masterChan, result, writes,
          tries, conns, prevDone, crashed, report, args, out>>

\* ------------------------------------------------------------ Redis servers

\* connected replicas of server a: the servers that replicate from a with the link up
Slaves(a) ==
  {b \in Addr : srv[b].up /\ srv[b].role = "slave" /\ srv[b].master = a /\ srv[b].linked}

\* the hosts of a's connected replicas; a replica that is no pod of the cluster has host Gone
SlaveHosts(a) == Slaves(a) \cup (IF srv[a].ext > 0 THEN {Gone} ELSE {})

OffsetOf(b) == IF b \in Addr THEN srv[b].off ELSE 0

\* the elements of a finite set of integers in ascending order
RECURSIVE Ascending(_)
Ascending(S) ==
  IF S = {} THEN <<>>
  ELSE LET m == CHOOSE x \in S : \A y \in S : x <= y
       IN <<m>> \o Ascending(S \ {m})

\* one line of an INFO REPLICATION report that the parser's regexp matches
Line(k, n, s, ip) == [k |-> k, n |-> n, s |-> s, ip |-> ip]

SlaveLines(a) ==
  LET bs == Ascending(SlaveHosts(a))
  IN [j \in 1..Len(bs) |-> Line("slave", OffsetOf(bs[j]), "online", bs[j])]

\* INFO REPLICATION of server a, as the lines infoReplicationRe finds, in order
Info(a) ==
  IF srv[a].role = "master"
  THEN <<Line(RoleMaster, 0, "", 0),
         Line("connected_slaves", Cardinality(SlaveHosts(a)), "", 0)>>
       \o SlaveLines(a)
       \o <<Line("master_repl_offset", srv[a].off, "", 0)>>
  ELSE <<Line(RoleReplica, 0, "", 0),
         Line("master_host", 0, "", srv[a].master),
         Line("master_port", Port, "", 0),
         Line("master_link_status", 0, IF srv[a].linked THEN "up" ELSE "down", 0),
         Line("slave_repl_offset", srv[a].off, "", 0),
         Line("slave_priority", srv[a].prio, "", 0),
         Line("connected_slaves", Cardinality(SlaveHosts(a)), "", 0)>>
       \o SlaveLines(a)
       \o <<Line("master_repl_offset", srv[a].off, "", 0)>>

\* the effect of the REPLICAOF transaction on server a (m = NoAddr: NO ONE)
ServerReplicaOf(s, a, m) ==
  IF m = NoAddr
  THEN [s EXCEPT ![a].role = "master", ![a].master = NoAddr, ![a].linked = FALSE]
  ELSE IF s[a].role = "slave" /\ s[a].master = m
       THEN s
       ELSE [s EXCEPT ![a].role = "slave", ![a].master = m, ![a].linked = FALSE]

\* a replica finishes the handshake with its master
Sync(b) ==
  /\ srv[b].up /\ srv[b].role = "slave" /\ ~srv[b].linked
  /\ srv[b].master \in Addr
  /\ srv[b].master # b
  /\ srv[srv[b].master].up
  /\ srv' = [srv EXCEPT ![b].linked = TRUE]
  /\ UNCHANGED <<failures>>
  /\ UNCHANGED <<engineVars, k8sVars, ctlVars>>
  /\ UNCHANGED <<conns, prevDone, crashed, report, args, out>>

\* a server stops answering; the links to and from it go down
Kill(a) ==
  /\ failures < MaxFailures
  /\ srv[a].up
  /\ srv' = [b \in Addr |->
               IF b = a THEN [srv[b] EXCEPT !.up = FALSE, !.linked = FALSE]
               ELSE IF srv[b].role = "slave" /\ srv[b].master = a
                    THEN [srv[b] EXCEPT !.linked = FALSE]
                    ELSE srv[b]]
  /\ failures' = failures + 1
  /\ UNCHANGED <<engineVars, k8sVars, ctlVars>>
  /\ UNCHANGED <<conns, prevDone, crashed, report, args, out>>

\* the readiness probe of a pod notices that its server stopped
NotReady(p) ==
  /\ pods[p].ready
  /\ ~srv[pods[p].ip].up
  /\ pods' = [pods EXCEPT ![p].ready = FALSE]
  /\ UNCHANGED <<srv, failures, engineVars, child, cmMaster, status, ctlVars>>
  /\ UNCHANGED <<conns, prevDone, crashed, report, args, out>>

\* ------------------------------------------------------------------- parser

\* instance{Address: a}: a record before its first refresh
NewInstance(a) ==
  [addr |-> a, role |-> "", off |-> 0, conn |-> 0, replicas |-> <<>>,
   prio |-> 0, mhost |-> NoAddr, mport |-> 0, mlink |-> ""]

HasLine(info, k) == \E j \in 1..Len(info) : info[j].k = k

\* strings.HasPrefix(s, "slave"): slaveN lines, and the two slave_ fields
SlavePrefixed(k) == k \in {"slave", "slave_priority", "slave_repl_offset"}

\* one iteration of refresh's loop over the matched lines
RefreshLine(i, l) ==
  IF i.role = RoleMaster /\ l.k = "connected_slaves" THEN [i EXCEPT !.conn = l.n]
  ELSE IF i.role = RoleMaster /\ l.k = "master_repl_offset" THEN [i EXCEPT !.off = l.n]
  ELSE IF i.role = RoleMaster /\ SlavePrefixed(l.k)
       THEN [i EXCEPT !.replicas = Append(@, [addr |-> l.ip, off |-> IF l.k = "slave" THEN l.n ELSE 0])]
  ELSE IF i.role = RoleReplica /\ l.k = "slave_priority" THEN [i EXCEPT !.prio = l.n]
  ELSE IF i.role = RoleReplica /\ l.k = "slave_repl_offset" THEN [i EXCEPT !.off = l.n]
  ELSE IF i.role = RoleReplica /\ l.k = "master_host" THEN [i EXCEPT !.mhost = l.ip]
  ELSE IF i.role = RoleReplica /\ l.k = "master_link_status" THEN [i EXCEPT !.mlink = l.s]
  ELSE IF i.role = RoleReplica /\ l.k = "master_port" THEN [i EXCEPT !.mport = l.n]
  ELSE i

\* refresh's loop from the j-th matched line on (each intermediate record is bound
\* through a singleton set, so that it is evaluated once)
RECURSIVE RefreshLines(_, _, _)
RefreshLines(i, info, j) ==
  IF j > Len(info) THEN i
  ELSE CHOOSE r \in {RefreshLines(x, info, j + 1) : x \in {RefreshLine(i, info[j])}} : TRUE

\* refresh's error result: the report holds neither role marker
RefreshFails(info) == ~HasLine(info, RoleMaster) /\ ~HasLine(info, RoleReplica)

\* refresh answering for a body without a role marker as for an unknown line
refreshClearsRole(i, info) ==
  CHOOSE r \in
    {IF HasLine(inf, RoleMaster) THEN RefreshLines([i EXCEPT !.role = RoleMaster], inf, 1)
     ELSE IF HasLine(inf, RoleReplica) THEN RefreshLines([i EXCEPT !.role = RoleReplica], inf, 1)
     ELSE [i EXCEPT !.role = ""] : inf \in {info}} : TRUE

\* instance.refresh: the record after parsing info (unchanged when it fails)
refresh(i, info) ==
  CHOOSE r \in
    {IF HasLine(inf, RoleMaster) THEN RefreshLines([i EXCEPT !.role = RoleMaster], inf, 1)
     ELSE IF HasLine(inf, RoleReplica) THEN RefreshLines([i EXCEPT !.role = RoleReplica], inf, 1)
     ELSE i : inf \in {info}} : TRUE

\* ------------------------------------------------------------------- engine

\* Less with the offsets compared the other way round
LessSmallerOffset(x, y) ==
  IF x.prio = y.prio THEN x.off < y.off ELSE x.prio < y.prio

\* instances.Less: a lesser priority first, a bigger replication offset among equals
Less(x, y) ==
  IF x.prio = y.prio THEN x.off > y.off ELSE x.prio < y.prio

\* selectMaster, first loop: the non-replicas with a connected replica
Working(s) == {j \in 1..Len(s) : s[j].role # RoleReplica /\ s[j].conn > 0}

\* selectMaster, second loop, and the filter of Reconfigure: replicas that may be promoted
Candidates(s) == {j \in 1..Len(s) : s[j].role = RoleReplica /\ s[j].prio # 0}

MinOf(S) == CHOOSE x \in S : \A y \in S : x <= y

\* selectMaster with its first two loops in the wrong order
selectMasterLostFirst(s) ==
  IF Candidates(s) # {} THEN <<>>
  ELSE IF Working(s) # {} THEN <<s[MinOf(Working(s))]>>
  ELSE IF Len(s) > 0 THEN <<s[1]>>
  ELSE <<>>

\* selectMaster without its second loop
selectMasterNeverLost(s) ==
  IF Working(s) # {} THEN <<s[MinOf(Working(s))]>>
  ELSE IF Len(s) > 0 THEN <<s[1]>>
  ELSE <<>>

\* selectMaster choosing the last instance in the initial state
selectMasterLast(s) ==
  IF Working(s) # {} THEN <<s[MinOf(Working(s))]>>
  ELSE IF Candidates(s) # {} THEN <<>>
  ELSE IF Len(s) > 0 THEN <<s[Len(s)]>>
  ELSE <<>>

\* selectMaster keeping the last working master in set order
selectMasterLastWorking(s) ==
  IF Working(s) # {} THEN <<s[CHOOSE j \in Working(s) : \A k \in Working(s) : k <= j]>>
  ELSE IF Candidates(s) # {} THEN <<>>
  ELSE IF Len(s) > 0 THEN <<s[1]>>
  ELSE <<>>

\* selectMaster without its last case: nil whenever no master is working
selectMasterNoInitialState(s) ==
  IF Working(s) # {} THEN <<s[MinOf(Working(s))]>> ELSE <<>>

\* instances.selectMaster: <<>> is nil
selectMaster(s) ==
  IF Working(s) # {} THEN <<s[MinOf(Working(s))]>>
  ELSE IF Candidates(s) # {} THEN <<>>
  ELSE IF Len(s) > 0 THEN <<s[1]>>
  ELSE <<>>

\* the candidates sort.Sort may leave first: no candidate is Less than them
Best(s) == {j \in Candidates(s) : \A k \in Candidates(s) : ~Less(s[k], s[j])}

\* Orphans without the master's list of replicas
OrphansAllOthers(s, m) == {j \in 1..Len(s) : s[j].addr # m.addr}

\* Orphans without the comparison with the master's address
OrphansWithMaster(s, m) ==
  {j \in 1..Len(s) : ~\E k \in 1..Len(m.replicas) : m.replicas[k].addr = s[j].addr}

\* Orphans that leaves every instance reporting itself a master alone
OrphansOnlyReplicas(s, m) ==
  {j \in 1..Len(s) :
     /\ s[j].role = RoleReplica
     /\ s[j].addr # m.addr
     /\ ~\E k \in 1..Len(m.replicas) : m.replicas[k].addr = s[j].addr}

\* Reconfigure's orphans: not the master's address, not among the master's replicas
Orphans(s, m) ==
  {j \in 1..Len(s) :
     /\ s[j].addr # m.addr
     /\ ~\E k \in 1..Len(m.replicas) : m.replicas[k].addr = s[j].addr}

Cmd(j, a, m) == [idx |-> j, addr |-> a, master |-> m]

\* the REPLICAOF NO ONE transactions issued by the running reconcile
Promotions == {c \in sent : c.master = NoAddr}

\* Reconfigure up to the fan-out: empty set, selectMaster, and on a lost master the
\* REPLICAOF NO ONE sent to the best candidate (promoteReplicaToMaster before its poll)
ReconfigureStart ==
  /\ pc = "reconfigure"
  /\ IF Len(ins) = 0
     THEN /\ err' = "nil"
          /\ pc' = "reconfigured"
          /\ UNCHANGED <<srv, mst, todo, sent>>
     ELSE IF selectMaster(ins) # <<>>
     THEN /\ mst' = selectMaster(ins)
          /\ todo' = Orphans(ins, mst'[1])
          /\ pc' = "orphans"
          /\ UNCHANGED <<srv, sent, err>>
     ELSE \E p \in Best(ins) :
          /\ sent' = sent \cup {Cmd(p, ins[p].addr, NoAddr)}
          /\ IF srv[ins[p].addr].up
             THEN /\ srv' = ServerReplicaOf(srv, ins[p].addr, NoAddr)
                  /\ mst' = <<ins[p]>>
                  /\ pc' = "poll"
                  /\ UNCHANGED <<todo, err>>
             ELSE /\ err' = "promote"
                  /\ pc' = "reconfigured"
                  /\ UNCHANGED <<srv, mst, todo>>
  /\ UNCHANGED <<failures, ins, errs, k8sVars, ctlVars>>
  /\ UNCHANGED <<conns, prevDone, crashed, report, args, out>>

\* promoteReplicaToMaster's poll: one getInfo and refresh of the promoted copy that
\* succeed; the poll ends when the copy reports itself as a master
PromotePoll ==
  /\ pc = "poll"
  /\ srv[mst[1].addr].up
  /\ LET r == refresh(mst[1], Info(mst[1].addr))
     IN /\ mst' = <<r>>
        /\ IF r.role = RoleMaster
           THEN /\ todo' = Orphans(ins, r)
                /\ pc' = "orphans"
           ELSE UNCHANGED <<todo, pc>>
  /\ UNCHANGED <<srv, failures, ins, errs, sent, err, k8sVars, ctlVars>>
  /\ UNCHANGED <<conns, prevDone, crashed, report, args, out>>

\* the poll giving up, with Reconfigure going on to the replicas all the same
PromoteTimeoutReassigns ==
  /\ pc = "poll"
  /\ ~srv[mst[1].addr].up
  /\ err' = "timeout"
  /\ todo' = Orphans(ins, mst[1])
  /\ pc' = "orphans"
  /\ UNCHANGED <<srv, failures, ins, mst, errs, sent, k8sVars, ctlVars>>
  /\ UNCHANGED <<conns, prevDone, crashed, report, args, out>>

\* the poll gives up after DefaultFailoverTimeout of failed attempts
PromoteTimeout ==
  /\ pc = "poll"
  /\ ~srv[mst[1].addr].up
  /\ err' = "timeout"
  /\ pc' = "reconfigured"
  /\ UNCHANGED <<srv, failures, ins, mst, todo, errs, sent, k8sVars, ctlVars>>
  /\ UNCHANGED <<conns, prevDone, crashed, report, args, out>>

\* one goroutine of reconfigureAsReplicasOf whose failure stops the ones still to run
ReassignTaskAborts(j) ==
  /\ pc = "orphans"
  /\ j \in todo
  /\ sent' = sent \cup {Cmd(j, ins[j].addr, mst[1].addr)}
  /\ IF srv[ins[j].addr].up
     THEN /\ srv' = ServerReplicaOf(srv, ins[j].addr, mst[1].addr)
          /\ todo' = todo \ {j}
          /\ UNCHANGED errs
     ELSE /\ errs' = errs (+) SetToBag({"replicaof"})
          /\ todo' = {}
          /\ UNCHANGED srv
  /\ UNCHANGED <<failures, pc, ins, mst, err, k8sVars, ctlVars>>
  /\ UNCHANGED <<conns, prevDone, crashed, report, args, out>>

\* one goroutine of reconfigureAsReplicasOf
ReassignTask(j) ==
  /\ pc = "orphans"
  /\ j \in todo
  /\ todo' = todo \ {j}
  /\ sent' = sent \cup {Cmd(j, ins[j].addr, mst[1].addr)}
  /\ IF srv[ins[j].addr].up
     THEN /\ srv' = ServerReplicaOf(srv, ins[j].addr, mst[1].addr)
          /\ UNCHANGED errs
     ELSE /\ errs' = errs (+) SetToBag({"replicaof"})
          /\ UNCHANGED srv
  /\ UNCHANGED <<failures, pc, ins, mst, err, k8sVars, ctlVars>>
  /\ UNCHANGED <<conns, prevDone, crashed, report, args, out>>

\* reconfigureAsReplicasOf after wg.Wait: the aggregate error, returned by Reconfigure
ReconfigureJoin ==
  /\ pc = "orphans"
  /\ todo = {}
  /\ err' = IF BagCardinality(errs) > 0 THEN "reassign" ELSE "nil"
  /\ errs' = EmptyBag
  /\ pc' = "reconfigured"
  /\ UNCHANGED <<srv, failures, ins, mst, todo, sent, k8sVars, ctlVars>>
  /\ UNCHANGED <<conns, prevDone, crashed, report, args, out>>

\* New after the pings: one record per address that answered, refreshed once
NewInstances(addrs) ==
  [j \in 1..Len(addrs) |-> refresh(NewInstance(addrs[j]), Info(addrs[j]))]

\* Size that does not count the master
SizeWithoutMaster(s) == Len(s) - 1

\* Disconnect that leaves the first client open
DisconnectButFirst(open, s) == open - (Len(s) - 1)

\* instances.Disconnect: the clients left open of `open' after those of s are closed
Disconnect(open, s) == open - Len(s)

\* instances.Size
Size(s) == Len(s)

\* GetMasterAddress that answers with the first instance's address
GetMasterAddressFirst(s) == IF Len(s) > 0 THEN s[1].addr ELSE NoAddr

\* instances.GetMasterAddress: the zero address when selectMaster returns nil
GetMasterAddress(s) ==
  IF selectMaster(s) # <<>> THEN selectMaster(s)[1].addr ELSE NoAddr

\* the check of the replication size passing with one instance
QuorumMetOne(s) == Len(s) >= 1

\* New's check of the replication size
QuorumMet(s) == Len(s) >= MinimumFailoverSize

\* ---------------------------------------------------------------- reconcile

\* the child resources in the order Reconcile walks them
Kinds == <<"Service", "Service", "Service", "Secret", "ConfigMap",
           "PodDisruptionBudget", "StatefulSet">>
ConfigMapKind == 5

\* answers of the orchestrator to a write
WriteAnswers == {"ok", "conflict", "error"}

Return(res, at) == [res |-> res, at |-> at]

\* the orchestrator refuses a write (answer is not "ok") a bounded number of times
Answered(answer) ==
  IF answer = "ok" THEN UNCHANGED failures
  ELSE failures < MaxFailures /\ failures' = failures + 1

\* the pods Reconcile keeps: running with an IP and every container ready
LiveReady(l) == SelectSeq(l, LAMBDA pod : pod.ready /\ pod.ip # NoAddr)

\* the first child that createOrUpdate would write, 0 when all are in sync
FirstUnsynced ==
  IF \E k \in 1..Len(Kinds) : child[k] # "ok"
  THEN CHOOSE k \in 1..Len(Kinds) :
         child[k] # "ok" /\ \A l \in 1..(k - 1) : child[l] = "ok"
  ELSE 0

\* the loop over the child resources going on to the pods after an accepted write
SyncChildrenGoesOn(answer) ==
  /\ pc = "idle"
  /\ LET k == FirstUnsynced
     IN IF k = 0
        THEN /\ answer = "ok"
             /\ pc' = "list"
             /\ UNCHANGED <<child, cmMaster, result, writes>>
        ELSE /\ pc' = IF answer = "ok" THEN "list" ELSE "returned"
             /\ writes' = {<<"child", answer>>}
             /\ IF child[k] = "missing"
                THEN \* Create: AlreadyExists is no error
                     /\ answer # "conflict"
                     /\ result' = Return(IF answer = "ok" THEN "requeue" ELSE "error", "sync")
                ELSE /\ result' = Return(IF answer = "error" THEN "error" ELSE "requeue", "sync")
             /\ child' = IF answer = "ok" THEN [child EXCEPT ![k] = "ok"] ELSE child
             /\ cmMaster' = IF answer = "ok" /\ k = ConfigMapKind THEN NoAddr ELSE cmMaster
  /\ UNCHANGED <<srv, ins, mst, todo, errs, sent, err, pods, status, podList,
                 master, masterChan, tries>>
  /\ UNCHANGED <<conns, prevDone, crashed, report, args, out>>

\* Reconcile from the fetch of the Redis object through the loop over the child
\* resources: the first child that is missing or differs is written, and the
\* reconcile returns
SyncChildren(answer) ==
  /\ pc = "idle"
  /\ LET k == FirstUnsynced
     IN IF k = 0
        THEN /\ answer = "ok"
             /\ pc' = "list"
             /\ UNCHANGED <<child, cmMaster, result, writes>>
        ELSE /\ pc' = "returned"
             /\ writes' = {<<"child", answer>>}
             /\ IF child[k] = "missing"
                THEN \* Create: AlreadyExists is no error
                     /\ answer # "conflict"
                     /\ result' = Return(IF answer = "ok" THEN "requeue" ELSE "error", "sync")
                ELSE /\ result' = Return(IF answer = "error" THEN "error" ELSE "requeue", "sync")
             /\ child' = IF answer = "ok" THEN [child EXCEPT ![k] = "ok"] ELSE child
             /\ cmMaster' = IF answer = "ok" /\ k = ConfigMapKind THEN NoAddr ELSE cmMaster
  /\ UNCHANGED <<srv, ins, mst, todo, errs, sent, err, pods, status, podList,
                 master, masterChan, tries>>
  /\ UNCHANGED <<conns, prevDone, crashed, report, args, out>>

\* the operator's process terminates in the middle of a failover, after the REPLICAOF
\* NO ONE of the promotion was sent: its locals and its connections are gone, and the
\* next reconcile is run by a new process
Crash ==
  /\ pc \in {"poll", "orphans"}
  /\ Promotions # {}
  /\ ~crashed
  /\ crashed' = TRUE
  /\ pc' = "idle"
  /\ ins' = <<>> /\ mst' = <<>> /\ todo' = {} /\ errs' = EmptyBag /\ sent' = {}
  /\ err' = "none"
  /\ podList' = <<>> /\ master' = NoAddr /\ masterChan' = <<>> /\ tries' = 0
  /\ result' = Return("none", "none")
  /\ writes' = {}
  /\ conns' = 0
  /\ prevDone' = FALSE
  /\ UNCHANGED <<srv, failures, pods, child, cmMaster, status, report, args, out>>

\* Reconcile returns: the locals are discarded (the deferred Disconnect has run)
ReconcileReturn ==
  /\ pc = "returned"
  /\ pc' = "idle"
  /\ ins' = <<>> /\ mst' = <<>> /\ todo' = {} /\ errs' = EmptyBag /\ sent' = {}
  /\ err' = "none"
  /\ podList' = <<>> /\ master' = NoAddr /\ masterChan' = <<>> /\ tries' = 0
  /\ result' = Return("none", "none")
  /\ writes' = {}
  /\ UNCHANGED <<srv, failures, pods, child, cmMaster, status>>
  /\ prevDone' = (result.res = "done")
  /\ UNCHANGED <<conns, crashed, report, args, out>>

\* the list of the pods with the Redis object's labels
ListPods ==
  /\ pc = "list"
  /\ podList' = [p \in 1..NumAddr |-> [name |-> p, ip |-> pods[p].ip,
                                       ready |-> pods[p].ready, label |-> pods[p].label]]
  /\ pc' = "new"
  /\ UNCHANGED <<srv, failures, ins, mst, todo, errs, sent, err, k8sVars,
                 master, masterChan, result, writes, tries>>
  /\ UNCHANGED <<conns, prevDone, crashed, report, args, out>>

\* the records of the addresses that answer PING, in the order of the addresses
RECURSIVE Pinged(_)
Pinged(l) ==
  IF l = <<>> THEN <<>>
  ELSE (IF srv[Head(l).ip].up THEN <<NewInstance(Head(l).ip)>> ELSE <<>>) \o Pinged(Tail(l))

\* New up to its Refresh: the pings and the check of the replication size
NewPing ==
  /\ pc = "new"
  /\ ins' = Pinged(LiveReady(podList))
  /\ IF QuorumMet(ins')
     THEN /\ pc' = "newrefresh"
          /\ todo' = 1..Len(ins')
          /\ UNCHANGED result
     ELSE /\ pc' = "returned"
          /\ result' = Return("requeue", "new")
          /\ UNCHANGED todo
  /\ UNCHANGED <<srv, failures, mst, errs, sent, err, k8sVars, podList, master,
                 masterChan, writes, tries>>
  /\ conns' = IF QuorumMet(ins') THEN Len(ins') ELSE Disconnect(Len(ins'), ins')
  /\ UNCHANGED <<prevDone, crashed, report, args, out>>

\* one goroutine of Refresh that goes on to refresh after getInfo failed, and so
\* sends a second message
RefreshTaskSendsTwice(j) ==
  /\ pc \in {"newrefresh", "settle"}
  /\ j \in todo
  /\ todo' = todo \ {j}
  /\ IF srv[ins[j].addr].up /\ ~RefreshFails(Info(ins[j].addr))
     THEN /\ ins' = [ins EXCEPT ![j] = refresh(ins[j], Info(ins[j].addr))]
          /\ UNCHANGED errs
     ELSE /\ errs' = errs (+) SetToBag({"refresh"}) (+) SetToBag({"refresh"})
          /\ UNCHANGED ins
  /\ UNCHANGED <<srv, failures, pc, mst, sent, err, k8sVars, ctlVars>>
  /\ UNCHANGED <<conns, prevDone, crashed, report, args, out>>

\* one goroutine of Refresh: getInfo and refresh of one instance
RefreshTask(j) ==
  /\ pc \in {"newrefresh", "settle"}
  /\ j \in todo
  /\ todo' = todo \ {j}
  /\ IF srv[ins[j].addr].up /\ ~RefreshFails(Info(ins[j].addr))
     THEN /\ ins' = [ins EXCEPT ![j] = refresh(ins[j], Info(ins[j].addr))]
          /\ UNCHANGED errs
     ELSE /\ errs' = errs (+) SetToBag({"refresh"})
          /\ UNCHANGED ins
  /\ UNCHANGED <<srv, failures, pc, mst, sent, err, k8sVars, ctlVars>>
  /\ UNCHANGED <<conns, prevDone, crashed, report, args, out>>

\* New after its Refresh
NewJoin ==
  /\ pc = "newrefresh"
  /\ todo = {}
  /\ errs' = EmptyBag
  /\ IF BagCardinality(errs) > 0
     THEN /\ pc' = "returned"
          /\ result' = Return("requeue", "newrefresh")
     ELSE /\ pc' = "reconfigure"
          /\ UNCHANGED result
  /\ UNCHANGED <<srv, failures, ins, mst, todo, sent, err, k8sVars, podList, master,
                 masterChan, writes, tries>>
  /\ conns' = IF pc' = "returned" THEN Disconnect(conns, ins) ELSE conns
  /\ UNCHANGED <<prevDone, crashed, report, args, out>>

\* Reconcile treating the error of Reconfigure like the error of New
AfterReconfigureRequeues ==
  /\ pc = "reconfigured"
  /\ IF err # "nil"
     THEN /\ pc' = "returned"
          /\ result' = Return("requeue", "reconfigure")
          /\ UNCHANGED todo
     ELSE /\ pc' = "settle"
          /\ todo' = 1..Len(ins)
          /\ UNCHANGED result
  /\ UNCHANGED <<srv, failures, ins, mst, errs, sent, err, k8sVars, podList, master,
                 masterChan, writes, tries>>
  /\ conns' = IF pc' = "returned" THEN Disconnect(conns, ins) ELSE conns
  /\ UNCHANGED <<prevDone, crashed, report, args, out>>

\* Reconcile after Reconfigure returned
AfterReconfigure ==
  /\ pc = "reconfigured"
  /\ IF err # "nil"
     THEN /\ pc' = "returned"
          /\ result' = Return("error", "reconfigure")
          /\ UNCHANGED todo
     ELSE /\ pc' = "settle"
          /\ todo' = 1..Len(ins)
          /\ UNCHANGED result
  /\ UNCHANGED <<srv, failures, ins, mst, errs, sent, err, k8sVars, podList, master,
                 masterChan, writes, tries>>
  /\ conns' = IF pc' = "returned" THEN Disconnect(conns, ins) ELSE conns
  /\ UNCHANGED <<prevDone, crashed, report, args, out>>

\* one attempt of the backoff loop after its Refresh: a master address ends the loop;
\* a failed attempt is retried, or the loop gives up after DefaultFailoverTimeout
SettleJoin(giveUp) ==
  /\ pc = "settle"
  /\ todo = {}
  /\ errs' = EmptyBag
  /\ IF BagCardinality(errs) = 0 /\ GetMasterAddress(ins) # NoAddr
     THEN /\ ~giveUp
          /\ master' = GetMasterAddress(ins)
          /\ pc' = "label"
          /\ todo' = 1..Len(podList)
          /\ UNCHANGED <<result, tries>>
     ELSE /\ master' = IF BagCardinality(errs) = 0 THEN NoAddr ELSE master
          /\ IF giveUp
             THEN /\ pc' = "returned"
                  /\ result' = Return("requeue", "settle")
                  /\ UNCHANGED <<todo, tries>>
             ELSE /\ tries < MaxRetries
                  /\ tries' = tries + 1
                  /\ todo' = 1..Len(ins)
                  /\ UNCHANGED <<pc, result>>
  /\ UNCHANGED <<srv, failures, ins, mst, sent, err, k8sVars, podList, masterChan, writes>>
  /\ conns' = IF pc' = "returned" THEN Disconnect(conns, ins) ELSE conns
  /\ UNCHANGED <<prevDone, crashed, report, args, out>>

masterLabel == "master"
replicaLabel == "replica"

\* the test for the master's pod comparing the pod's name with the address
IsMasterPodByName(pod, m) == pod.name = m

\* the label goroutine's test for the master's pod
IsMasterPod(pod, m) == pod.ip = m

\* one goroutine of the label fan-out, for the p-th listed pod; answer is the
\* orchestrator's answer to the patch, when one is sent
LabelPod(p, answer) ==
  /\ pc = "label"
  /\ p \in todo
  /\ todo' = todo \ {p}
  /\ LET pod == podList[p]
         want == IF IsMasterPod(pod, master) THEN masterLabel ELSE replicaLabel
         full == IsMasterPod(pod, master) /\ Len(masterChan) = 1
     IN /\ masterChan' = IF IsMasterPod(pod, master) /\ ~full
                         THEN Append(masterChan, pod.name) ELSE masterChan
        /\ IF full
           THEN /\ answer = "ok"
                /\ errs' = errs (+) SetToBag({"ipconflict"})
                /\ UNCHANGED <<pods, writes>>
           ELSE IF pod.label = want
           THEN /\ answer = "ok"
                /\ UNCHANGED <<pods, writes, errs>>
           ELSE /\ writes' = writes \cup {<<"pod", answer>>}
                /\ pods' = IF answer = "ok"
                           THEN [pods EXCEPT ![pod.name].label = want] ELSE pods
                /\ errs' = IF answer = "ok" THEN errs ELSE errs (+) SetToBag({answer})
  /\ UNCHANGED <<srv, pc, ins, mst, sent, err, child, cmMaster, status,
                 podList, master, result, tries>>
  /\ UNCHANGED <<conns, prevDone, crashed, report, args, out>>

\* Reconcile after the label fan-out returning an error for any failed patch
LabelJoinConflictFails ==
  /\ pc = "label"
  /\ todo = {}
  /\ errs' = EmptyBag
  /\ IF BagCardinality(errs) > 0
     THEN /\ pc' = "returned"
          /\ result' = Return(IF TRUE
                              THEN "error" ELSE "requeue", "label")
     ELSE /\ pc' = "configmap"
          /\ UNCHANGED result
  /\ UNCHANGED <<srv, failures, ins, mst, todo, sent, err, k8sVars, podList, master,
                 masterChan, writes, tries>>
  /\ conns' = IF pc' = "returned" THEN Disconnect(conns, ins) ELSE conns
  /\ UNCHANGED <<prevDone, crashed, report, args, out>>
\* Reconcile after the label fan-out asking for a requeue whatever failed
LabelJoinRequeues ==
  /\ pc = "label"
  /\ todo = {}
  /\ errs' = EmptyBag
  /\ IF BagCardinality(errs) > 0
     THEN /\ pc' = "returned"
          /\ result' = Return(IF FALSE
                              THEN "error" ELSE "requeue", "label")
     ELSE /\ pc' = "configmap"
          /\ UNCHANGED result
  /\ UNCHANGED <<srv, failures, ins, mst, todo, sent, err, k8sVars, podList, master,
                 masterChan, writes, tries>>
  /\ conns' = IF pc' = "returned" THEN Disconnect(conns, ins) ELSE conns
  /\ UNCHANGED <<prevDone, crashed, report, args, out>>
\* Reconcile after the label fan-out going on to the ConfigMap whatever the patches did
LabelJoinIgnoresErrors ==
  /\ pc = "label"
  /\ todo = {}
  /\ errs' = EmptyBag
  /\ pc' = "configmap"
  /\ UNCHANGED result
  /\ UNCHANGED <<srv, failures, ins, mst, todo, sent, err, k8sVars, podList, master,
                 masterChan, writes, tries>>
  /\ conns' = IF pc' = "returned" THEN Disconnect(conns, ins) ELSE conns
  /\ UNCHANGED <<prevDone, crashed, report, args, out>>

\* Reconcile after the label fan-out: conflicts alone requeue, other errors fail
LabelJoin ==
  /\ pc = "label"
  /\ todo = {}
  /\ errs' = EmptyBag
  /\ IF BagCardinality(errs) > 0
     THEN /\ pc' = "returned"
          /\ result' = Return(IF \E e \in BagToSet(errs) : e # "conflict"
                              THEN "error" ELSE "requeue", "label")
     ELSE /\ pc' = "configmap"
          /\ UNCHANGED result
  /\ UNCHANGED <<srv, failures, ins, mst, todo, sent, err, k8sVars, podList, master,
                 masterChan, writes, tries>>
  /\ conns' = IF pc' = "returned" THEN Disconnect(conns, ins) ELSE conns
  /\ UNCHANGED <<prevDone, crashed, report, args, out>>

\* the second pass over the ConfigMap going on to the status after an accepted write
SyncConfigMapGoesOn(answer) ==
  /\ pc = "configmap"
  /\ IF child[ConfigMapKind] = "ok" /\ cmMaster = master
     THEN /\ answer = "ok"
          /\ pc' = "status"
          /\ UNCHANGED <<child, cmMaster, result, writes>>
     ELSE /\ pc' = IF answer = "ok" THEN "status" ELSE "returned"
          /\ writes' = writes \cup {<<"child", answer>>}
          /\ IF child[ConfigMapKind] = "missing"
             THEN /\ answer # "conflict"
                  /\ result' = IF answer = "ok" THEN result ELSE Return("error", "configmap")
             ELSE /\ result' = IF answer = "ok" THEN result
                               ELSE Return(IF answer = "error" THEN "error" ELSE "requeue",
                                           "configmap")
          /\ child' = IF answer = "ok" THEN [child EXCEPT ![ConfigMapKind] = "ok"] ELSE child
          /\ cmMaster' = IF answer = "ok" THEN master ELSE cmMaster
  /\ UNCHANGED <<srv, ins, mst, todo, errs, sent, err, pods, status, podList,
                 master, masterChan, tries>>
  /\ conns' = IF pc' = "returned" THEN Disconnect(conns, ins) ELSE conns
  /\ UNCHANGED <<prevDone, crashed, report, args, out>>

\* createOrUpdate of the ConfigMap with the master's address in its replicaof line
SyncConfigMap(answer) ==
  /\ pc = "configmap"
  /\ IF child[ConfigMapKind] = "ok" /\ cmMaster = master
     THEN /\ answer = "ok"
          /\ pc' = "status"
          /\ UNCHANGED <<child, cmMaster, result, writes>>
     ELSE /\ pc' = "returned"
          /\ writes' = writes \cup {<<"child", answer>>}
          /\ IF child[ConfigMapKind] = "missing"
             THEN /\ answer # "conflict"
                  /\ result' = Return(IF answer = "ok" THEN "requeue" ELSE "error", "configmap")
             ELSE /\ result' = Return(IF answer = "error" THEN "error" ELSE "requeue", "configmap")
          /\ child' = IF answer = "ok" THEN [child EXCEPT ![ConfigMapKind] = "ok"] ELSE child
          /\ cmMaster' = IF answer = "ok" THEN master ELSE cmMaster
  /\ UNCHANGED <<srv, ins, mst, todo, errs, sent, err, pods, status, podList,
                 master, masterChan, tries>>
  /\ conns' = IF pc' = "returned" THEN Disconnect(conns, ins) ELSE conns
  /\ UNCHANGED <<prevDone, crashed, report, args, out>>

\* the end of Reconcile updating the status without comparing it first
WriteStatusAlways(answer) ==
  /\ pc = "status"
  /\ Len(masterChan) > 0
  /\ masterChan' = Tail(masterChan)
  /\ pc' = "returned"
  /\ LET new == [replicas |-> Size(ins), master |-> Head(masterChan)]
     IN IF FALSE
        THEN /\ answer = "ok"
             /\ result' = Return("done", "status")
             /\ UNCHANGED <<status, writes>>
        ELSE /\ writes' = writes \cup {<<"status", answer>>}
             /\ status' = IF answer = "ok" THEN new ELSE status
             /\ result' = Return(IF answer = "ok" THEN "done"
                                 ELSE IF answer = "conflict" THEN "requeue" ELSE "error",
                                 "status")
  /\ UNCHANGED <<srv, ins, mst, todo, errs, sent, err, pods, child, cmMaster,
                 podList, master, tries>>
  /\ conns' = IF pc' = "returned" THEN Disconnect(conns, ins) ELSE conns
  /\ UNCHANGED <<prevDone, crashed, report, args, out>>

\* the end of Reconcile: the master pod's name is received from the channel and the
\* status is updated unless it already holds the size and the name
WriteStatus(answer) ==
  /\ pc = "status"
  /\ Len(masterChan) > 0
  /\ masterChan' = Tail(masterChan)
  /\ pc' = "returned"
  /\ LET new == [replicas |-> Size(ins), master |-> Head(masterChan)]
     IN IF status = new
        THEN /\ answer = "ok"
             /\ result' = Return("done", "status")
             /\ UNCHANGED <<status, writes>>
        ELSE /\ writes' = writes \cup {<<"status", answer>>}
             /\ status' = IF answer = "ok" THEN new ELSE status
             /\ result' = Return(IF answer = "ok" THEN "done"
                                 ELSE IF answer = "conflict" THEN "requeue" ELSE "error",
                                 "status")
  /\ UNCHANGED <<srv, ins, mst, todo, errs, sent, err, pods, child, cmMaster,
                 podList, master, tries>>
  /\ conns' = IF pc' = "returned" THEN Disconnect(conns, ins) ELSE conns
  /\ UNCHANGED <<prevDone, crashed, report, args, out>>

\* the steps of Reconcile that write, with the bound on refused writes
ReconcileSync(answer) == Answered(answer) /\ SyncChildren(answer)

LabelTask(p, answer) == Answered(answer) /\ LabelPod(p, answer)

UpdateConfigMap(answer) == Answered(answer) /\ SyncConfigMap(answer)

UpdateStatus(answer) == Answered(answer) /\ WriteStatus(answer)

\* ------------------------------------------------- the engine on any topology

\* <<priority, offset>> of the replicas drawn initially
Profiles == {<<0, 1>>, <<1, 0>>, <<1, 1>>, <<2, 1>>}

\* a master; e = 1: with one connected replica that is no pod of the cluster
MasterServer(e) ==
  [up |-> TRUE, role |-> "master", master |-> NoAddr, linked |-> FALSE,
   prio |-> 1, off |-> 1, ext |-> e]

SlaveServer(m, l, p) ==
  [up |-> TRUE, role |-> "slave", master |-> m, linked |-> l,
   prio |-> p[1], off |-> p[2], ext |-> 0]

\* a replica either lost its master or is connected to another server
ServerStates(a) ==
  {MasterServer(e) : e \in {0, 1}}
  \cup {SlaveServer(Gone, FALSE, p) : p \in Profiles}
  \cup {SlaveServer(m, TRUE, p) : m \in Addr \ {a}, p \in Profiles}

Worlds == {w \in [Addr -> UNION {ServerStates(a) : a \in Addr}] :
             \A a \in Addr : w[a] \in ServerStates(a)}

InitEngine ==
  /\ srv \in Worlds
  /\ failures = 0
  /\ \E n \in MinimumFailoverSize..NumAddr : ins = NewInstances([j \in 1..n |-> j])
  /\ pc = "reconfigure"
  /\ mst = <<>>
  /\ todo = {}
  /\ errs = EmptyBag
  /\ sent = {}
  /\ err = "none"
  /\ pods = [p \in Addr |-> [ip |-> p, ready |-> TRUE, label |-> ""]]
  /\ child = [k \in 1..7 |-> "ok"]
  /\ cmMaster = NoAddr
  /\ status = [replicas |-> 0, master |-> 0]
  /\ podList = <<>>
  /\ master = NoAddr
  /\ masterChan = <<>>
  /\ result = [res |-> "none", at |-> "none"]
  /\ writes = {}
  /\ tries = 0
  /\ conns = Len(ins)
  /\ prevDone = FALSE
  /\ crashed = FALSE
  /\ report = <<>>
  /\ args = <<>>
  /\ out = <<>>

NextEngine ==
  \/ ReconfigureStart
  \/ PromotePoll
  \/ PromoteTimeout
  \/ \E j \in 1..NumAddr : ReassignTask(j)
  \/ ReconfigureJoin
  \/ \E a \in Addr : Kill(a)

SpecEngine == InitEngine /\ [][NextEngine]_vars

\* ------------------------------------------------------ claims on the engine

\* the instances that report PRIMARY with at least one connected secondary
WorkingPrimaries == {j \in 1..Len(ins) : ins[j].role = RoleMaster /\ ins[j].conn > 0}

\* the secondaries with a priority other than 0
ViableSecondaries == {j \in 1..Len(ins) : ins[j].role = RoleReplica /\ ins[j].prio # 0}

ReplicaAddrs(m) == {m.replicas[k].addr : k \in 1..Len(m.replicas)}

\* C1: when the set holds a working primary, selectMaster returns the first working
\* primary in set order, Reconfigure works with it, and no REPLICAOF NO ONE is sent
C1_WorkingPrimarySelected ==
  WorkingPrimaries # {} =>
    LET first == CHOOSE j \in WorkingPrimaries : \A k \in WorkingPrimaries : j <= k
    IN /\ selectMaster(ins) = <<ins[first]>>
       /\ pc # "reconfigure" => mst = <<ins[first]>>
       /\ Promotions = {}

\* Reconfigure returned for a set whose first working primary is not its first
\* instance and that also holds a secondary that could be promoted
C1_Witness ==
  /\ pc = "reconfigured"
  /\ WorkingPrimaries # {}
  /\ 1 \notin WorkingPrimaries
  /\ ViableSecondaries # {}
  /\ mst # <<>>

\* C2: with no working primary and a secondary of priority other than 0, selectMaster
\* returns nil and Reconfigure sends REPLICAOF NO ONE to a secondary
C2_PrimaryLostPromotes ==
  (WorkingPrimaries = {} /\ ViableSecondaries # {}) =>
    /\ selectMaster(ins) = <<>>
    /\ pc # "reconfigure" =>
         \E c \in Promotions : ins[c.idx].role = RoleReplica /\ c.addr = ins[c.idx].addr

\* promotion ran although the set holds a PRIMARY with no connected secondary
C2_Witness ==
  /\ pc = "reconfigured"
  /\ WorkingPrimaries = {}
  /\ \E j \in 1..Len(ins) : ins[j].role = RoleMaster /\ ins[j].conn = 0
  /\ Promotions # {}
  /\ err = "nil"

\* C3: the instance sent REPLICAOF NO ONE is a secondary of priority other than 0, of
\* the lowest such priority, and of the highest offset among those of that priority
C3_BestCandidatePromoted ==
  \A c \in Promotions :
    LET p == ins[c.idx]
    IN /\ p.role = RoleReplica
       /\ p.prio # 0
       /\ \A k \in ViableSecondaries :
            /\ p.prio <= ins[k].prio
            /\ ins[k].prio = p.prio => p.off >= ins[k].off

\* a promotion among a priority-0 secondary of no lesser offset, a secondary of the
\* same priority and a lower offset, and the promoted one
C3_Witness ==
  \E c \in Promotions :
    /\ \E k \in ViableSecondaries :
         ins[k].prio = ins[c.idx].prio /\ ins[k].off < ins[c.idx].off
    /\ \E z \in 1..Len(ins) :
         ins[z].role = RoleReplica /\ ins[z].prio = 0 /\ ins[z].off >= ins[c.idx].off

AllStandalone ==
  /\ Len(ins) > 0
  /\ \A j \in 1..Len(ins) : ins[j].role = RoleMaster /\ ins[j].conn = 0

\* C4: when every instance is a PRIMARY with no connected secondary, Reconfigure takes
\* the first instance and sends REPLICAOF first to every other instance and nothing else
C4_Bootstrap ==
  AllStandalone =>
    LET reassigns == {Cmd(j, ins[j].addr, ins[1].addr) : j \in 2..Len(ins)}
    IN /\ sent \subseteq reassigns
       /\ pc # "reconfigure" => mst = <<ins[1]>>
       /\ pc = "reconfigured" => sent = reassigns

C4_Witness ==
  /\ AllStandalone
  /\ pc = "reconfigured"
  /\ Len(ins) = NumAddr
  /\ Cardinality(sent) = NumAddr - 1

\* the first working primary advertises every instance with another address
Healthy ==
  /\ WorkingPrimaries # {}
  /\ LET m == ins[CHOOSE j \in WorkingPrimaries : \A k \in WorkingPrimaries : j <= k]
     IN \A j \in 1..Len(ins) : ins[j].addr # m.addr => ins[j].addr \in ReplicaAddrs(m)

\* C5: in the healthy steady state Reconfigure sends no REPLICAOF and returns nil
C5_HealthyNoReassign ==
  Healthy => (sent = {} /\ (pc = "reconfigured" => err = "nil"))

\* Reconfigure returned in a healthy state after one of the secondaries stopped
C5_Witness ==
  /\ Healthy
  /\ pc = "reconfigured"
  /\ Len(ins) = NumAddr
  /\ \E j \in 1..Len(ins) : ~srv[ins[j].addr].up

\* C6: when the fan-out of Reconfigure is over, the instances sent REPLICAOF master
\* are those whose address is not the master's and not in the master's list; before
\* that only such instances have been sent it
C6_ExactlyOrphansReassigned ==
  (mst # <<>> /\ pc \in {"orphans", "reconfigured"}) =>
    \A j \in 1..Len(ins) :
      LET got == Cmd(j, ins[j].addr, mst[1].addr) \in sent
          orphan == ins[j].addr # mst[1].addr /\ ins[j].addr \notin ReplicaAddrs(mst[1])
      IN /\ got => orphan
         /\ (pc = "reconfigured" /\ err \in {"nil", "reassign"}) => (orphan => got)

\* after a promotion whose new master already lists one instance, another instance
\* has been reassigned
C6_Witness ==
  /\ pc = "reconfigured"
  /\ err = "nil"
  /\ Promotions # {}
  /\ \E j \in 1..Len(ins) : ins[j].addr \in ReplicaAddrs(mst[1])
  /\ \E c \in sent : c.master = mst[1].addr

\* ------------------------------------------------------------ the controller

M0 == MasterServer(0)
M1 == MasterServer(1)
Lost(p) == SlaveServer(Gone, FALSE, p)
Down == [M0 EXCEPT !.up = FALSE]

\* the topologies the controller starts from: fresh pods, a healthy replication, a
\* replication that waits for its links, lost masters, two working masters, and a
\* replication with a server that stopped before its pod's readiness probe noticed;
\* cm is the master in the replicaof line of the ConfigMap, NoAddr when it has none
World(s, m) == [srv |-> s, cm |-> m]

InitWorlds ==
  {World(<<M0, M0, M0>>, NoAddr),
   World(<<M0, SlaveServer(1, TRUE, <<1, 1>>), SlaveServer(1, TRUE, <<1, 0>>)>>, NoAddr),
   World(<<SlaveServer(2, TRUE, <<1, 1>>), M0, SlaveServer(2, FALSE, <<1, 1>>)>>, NoAddr),
   World(<<Lost(<<0, 1>>), Lost(<<1, 0>>), Lost(<<1, 1>>)>>, NoAddr),
   World(<<M1, M1, Lost(<<1, 1>>)>>, 1),
   World(<<M0, M1, SlaveServer(1, TRUE, <<1, 1>>)>>, NoAddr),
   World(<<M0, SlaveServer(1, TRUE, <<1, 1>>), Down>>, 1)}

\* the child resources initially: all in sync, or one missing or out of date
InitChildren ==
  {[k \in 1..7 |-> "ok"]}
  \cup {[k \in 1..7 |-> IF k = ConfigMapKind THEN "missing" ELSE "ok"],
        [k \in 1..7 |-> IF k = 7 THEN "stale" ELSE "ok"]}

Init ==
  /\ \E w \in InitWorlds : srv = w.srv /\ cmMaster = w.cm
  /\ failures = 0
  /\ pods = [p \in Addr |-> [ip |-> p, ready |-> TRUE, label |-> ""]]
  /\ child \in InitChildren
  /\ status = [replicas |-> 0, master |-> 0]
  /\ pc = "idle"
  /\ ins = <<>>
  /\ mst = <<>>
  /\ todo = {}
  /\ errs = EmptyBag
  /\ sent = {}
  /\ err = "none"
  /\ podList = <<>>
  /\ master = NoAddr
  /\ masterChan = <<>>
  /\ result = [res |-> "none", at |-> "none"]
  /\ writes = {}
  /\ tries = 0
  /\ conns = 0
  /\ prevDone = FALSE
  /\ crashed = FALSE
  /\ report = <<>>
  /\ args = <<>>
  /\ out = <<>>

Next ==
  \/ \E answer \in WriteAnswers : ReconcileSync(answer)
  \/ ListPods
  \/ NewPing
  \/ \E j \in 1..NumAddr : RefreshTask(j)
  \/ NewJoin
  \/ ReconfigureStart
  \/ PromotePoll
  \/ PromoteTimeout
  \/ \E j \in 1..NumAddr : ReassignTask(j)
  \/ ReconfigureJoin
  \/ AfterReconfigure
  \/ \E giveUp \in BOOLEAN : SettleJoin(giveUp)
  \/ \E p \in 1..NumAddr, answer \in WriteAnswers : LabelTask(p, answer)
  \/ LabelJoin
  \/ \E answer \in WriteAnswers : UpdateConfigMap(answer)
  \/ \E answer \in WriteAnswers : UpdateStatus(answer)
  \/ ReconcileReturn
  \/ \E a \in Addr : Kill(a)
  \/ \E b \in Addr : Sync(b)
  \/ \E p \in Addr : NotReady(p)

Spec == Init /\ [][Next]_vars

\* -------------------------------------------------- claims on the controller

\* Reconcile returned reconcile.Result{}, nil after the status step
Succeeded == pc = "returned" /\ result = Return("done", "status")

\* Reconcile is past the pings of New
PingsDone ==
  /\ pc \notin {"idle", "list", "new"}
  /\ ~(pc = "returned" /\ result.at = "sync")

\* C7: when a reconcile returns without error and without requeue, at most one record
\* of the replication has the master role and a connected replica
C7_OneWorkingPrimary ==
  Succeeded => Cardinality(WorkingPrimaries) <= 1

\* a reconcile succeeded in which a server that still has a replica outside the
\* cluster was sent REPLICAOF the master and now reports itself a replica
C7_Witness ==
  /\ Succeeded
  /\ \E c \in sent :
       /\ c.master = master
       /\ srv[c.addr].ext > 0
       /\ ins[c.idx].role = RoleReplica
       /\ ins[c.idx].conn > 0

\* C8: when fewer than MinimumFailoverSize addresses answered the pings, Reconcile
\* returns a requeue and no error from New, no REPLICAOF was sent, and neither a pod
\* nor the status nor a child was written
C8_NoQuorumNoAction ==
  (PingsDone /\ Len(ins) < MinimumFailoverSize) =>
    /\ pc = "returned"
    /\ result = Return("requeue", "new")
    /\ sent = {}
    /\ writes = {}
    /\ mst = <<>>

\* one address of at least two listed answered the pings and Reconcile returned
C8_Witness ==
  /\ pc = "returned"
  /\ result.at = "new"
  /\ Len(ins) = 1
  /\ Len(LiveReady(podList)) >= MinimumFailoverSize

\* C9 as stated: after a successful reconcile the status counts the pods listed as
\* running with an IP and all containers ready
C9_CountsLiveReadyPods ==
  Succeeded => status.replicas = Len(LiveReady(podList))

\* C9: after a successful reconcile the status counts the addresses that answered
\* the pings of New, at least MinimumFailoverSize and at most the pods listed as
\* running with an IP and all containers ready
C9_CountsPingedInstances ==
  Succeeded =>
    /\ status.replicas = Len(ins)
    /\ MinimumFailoverSize <= Len(ins)
    /\ Len(ins) <= Len(LiveReady(podList))

\* the status was written in a reconcile that listed a ready pod whose server did
\* not answer the ping
C9_Witness ==
  /\ Succeeded
  /\ <<"status", "ok">> \in writes
  /\ status.replicas < Len(LiveReady(podList))

\* C10: after a successful reconcile the status names a listed pod whose IP is the
\* address of the instance selectMaster returns on the records of the last Refresh
C10_StatusNamesSelectedMaster ==
  Succeeded =>
    /\ selectMaster(ins) # <<>>
    /\ \E p \in 1..Len(podList) :
         /\ podList[p].name = status.master
         /\ podList[p].ip = selectMaster(ins)[1].addr

\* the status was written with the name of a pod promoted in this reconcile, which
\* is not the first pod
C10_Witness ==
  /\ Succeeded
  /\ <<"status", "ok">> \in writes
  /\ \E c \in Promotions : c.addr # 1 /\ pods[status.master].ip = c.addr

\* the pods that carry the label role=master
MasterPods == {p \in Addr : pods[p].label = masterLabel}

\* C11, its last clause: in no reachable state do two pods carry the label
\* role=master, also between the patches of one label round and after a round in
\* which a patch failed
C11_AtMostOnePrimaryLabel == Cardinality(MasterPods) <= 1

\* C20: when Reconcile has returned, and before New of the next reconcile, no client
\* of a Redis server is open; between New and the return one client per instance is
C20_ConnectionsClosed ==
  IF pc \in {"idle", "list", "new", "returned"} THEN conns = 0 ELSE conns = Len(ins)

\* Reconcile returned the error of Reconfigure with every client closed
C20_Witness ==
  /\ pc = "returned"
  /\ result = Return("error", "reconfigure")
  /\ Len(ins) = NumAddr
  /\ conns = 0

\* C15 as stated: when the promoted replica did not report itself a master in time,
\* or a REPLICAOF of the fan-out failed, Reconcile returns a requeue and no error
C15_ReconfigureErrorRequeues ==
  (pc = "returned" /\ err \in {"timeout", "reassign"}) => result.res = "requeue"

\* C15: when Reconfigure returned an error (the REPLICAOF NO ONE failed, the promoted
\* replica did not report itself a master in time, or a REPLICAOF of the fan-out
\* failed), Reconcile returns that error, without a requeue and before any write;
\* and Reconcile returns from this step only with such an error
C15_ReconfigureErrorReturned ==
  pc = "returned" =>
    /\ err \in {"promote", "timeout", "reassign"} =>
          (result = Return("error", "reconfigure") /\ writes = {})
    /\ result.at = "reconfigure" => err \in {"promote", "timeout", "reassign"}

\* Reconcile returned after the promoted replica stopped answering
C15_Witness ==
  /\ pc = "returned"
  /\ err = "timeout"
  /\ Promotions # {}

\* --------------------------------------------------- one record and its reports

MaxRefreshes == 3

\* INFO REPLICATION bodies a record may be handed: the report of its server, the
\* report without its role line, and the empty body
Reports(a) == {Info(a), Tail(Info(a)), <<>>}

\* a reconcile that has not started: the orchestrator's objects and Reconcile's locals
NoReconcile ==
  /\ failures = 0
  /\ pods = [p \in Addr |-> [ip |-> p, ready |-> TRUE, label |-> ""]]
  /\ status = [replicas |-> 0, master |-> 0]
  /\ mst = <<>>
  /\ todo = {}
  /\ errs = EmptyBag
  /\ sent = {}
  /\ err = "none"
  /\ podList = <<>>
  /\ master = NoAddr
  /\ masterChan = <<>>
  /\ result = [res |-> "none", at |-> "none"]
  /\ writes = {}
  /\ tries = 0
  /\ prevDone = FALSE
  /\ crashed = FALSE

\* instance.refresh called on the record with the body info
RefreshReport(info) ==
  /\ pc = "parse"
  /\ Len(report) < MaxRefreshes
  /\ report' = Append(report, info)
  /\ UNCHANGED <<args, out>>
  /\ ins' = <<refresh(ins[1], info)>>
  /\ err' = IF RefreshFails(info) THEN "parse" ELSE "nil"
  /\ UNCHANGED <<srv, failures, pc, mst, todo, errs, sent, k8sVars, ctlVars>>
  /\ UNCHANGED <<conns, prevDone, crashed>>

\* the record's server executes a REPLICAOF transaction (m = NoAddr: NO ONE)
replicaOf(m) ==
  /\ pc = "parse"
  /\ m # ins[1].addr
  /\ srv' = ServerReplicaOf(srv, ins[1].addr, m)
  /\ srv' # srv
  /\ UNCHANGED <<failures, engineVars, k8sVars, ctlVars>>
  /\ UNCHANGED <<conns, prevDone, crashed, report, args, out>>

InitRefresh ==
  /\ \E w \in InitWorlds : srv = w.srv /\ cmMaster = w.cm
  /\ \E a \in Addr : srv[a].up /\ ins = <<NewInstance(a)>>
  /\ child = [k \in 1..7 |-> "ok"]
  /\ pc = "parse"
  /\ conns = 1
  /\ report = <<>>
  /\ args = <<>>
  /\ out = <<>>
  /\ NoReconcile

NextRefresh ==
  \/ \E info \in Reports(ins[1].addr) : RefreshReport(info)
  \/ \E m \in Addr \cup {NoAddr} : replicaOf(m)
  \/ \E b \in Addr : Sync(b)

SpecRefresh == InitRefresh /\ [][NextRefresh]_vars

\* the last body the record was handed
LastReport == report[Len(report)]

\* the body holds neither role marker
NoRoleMarker(info) == \A j \in 1..Len(info) : info[j].k \notin {RoleMaster, RoleReplica}

\* C18 as stated: every record with the master role has priority, master host, master
\* port and link status zero-valued, and every record with the replica role has the
\* connected-replica count zero and the replica list empty
C18_RoleFieldsZero ==
  \A i \in {ins[j] : j \in 1..Len(ins)} :
    /\ i.role = RoleMaster =>
          (i.prio = 0 /\ i.mhost = NoAddr /\ i.mport = 0 /\ i.mlink = "")
    /\ i.role = RoleReplica => (i.conn = 0 /\ i.replicas = <<>>)

\* a record that was promoted between two refreshes
C18_Witness ==
  /\ Len(ins) > 0
  /\ ins[1].role = RoleMaster
  /\ ins[1].prio # 0

\* C19: a call of refresh with a body that holds neither role marker (the empty body
\* included) returns an error and changes no field of the record; a call that
\* succeeds leaves the record with the role master or the role replica, the one
\* whose marker the body holds
C19_ParseFailureKeepsRecord ==
  [][Len(report') > Len(report) =>
       LET info == report'[Len(report')]
       IN /\ NoRoleMarker(info) => (err' = "parse" /\ ins' = ins)
          /\ ~NoRoleMarker(info) =>
                /\ err' = "nil"
                /\ ins'[1].role \in {RoleMaster, RoleReplica}
                /\ HasLine(info, ins'[1].role)]_vars

\* the record has parsed a report, and was then handed the empty body
C19_Witness ==
  /\ pc = "parse"
  /\ Len(report) >= 2
  /\ LastReport = <<>>
  /\ err = "parse"
  /\ ins[1].role \in {RoleMaster, RoleReplica}

\* ------------------------------------------- the operator terminates in a failover

\* the reconcile loop with an operator that may terminate once inside a failover and
\* is restarted; the orchestrator accepts every write, and no server stops after the
\* restart
NextCrash ==
  \/ ReconcileSync("ok")
  \/ ListPods
  \/ NewPing
  \/ \E j \in 1..NumAddr : RefreshTask(j)
  \/ NewJoin
  \/ ReconfigureStart
  \/ PromotePoll
  \/ PromoteTimeout
  \/ \E j \in 1..NumAddr : ReassignTask(j)
  \/ ReconfigureJoin
  \/ AfterReconfigure
  \/ \E giveUp \in BOOLEAN : SettleJoin(giveUp)
  \/ \E p \in 1..NumAddr : LabelTask(p, "ok")
  \/ LabelJoin
  \/ UpdateConfigMap("ok")
  \/ UpdateStatus("ok")
  \/ ReconcileReturn
  \/ Crash
  \/ \E a \in Addr : ~crashed /\ Kill(a)
  \/ \E b \in Addr : Sync(b)
  \/ \E p \in Addr : NotReady(p)

SpecCrash == Init /\ [][NextCrash]_vars

\* the servers that answer
Live == {a \in Addr : srv[a].up}

\* the servers that answer and have the master role
LiveMasters == {a \in Live : srv[a].role = "master"}

\* C13: when the operator terminated inside a failover (after the REPLICAOF NO ONE of
\* the promotion, before or during the reassignment of the other instances) and a
\* later reconcile, started by a new process, returns from Reconfigure without an
\* error, then exactly one live server has the master role and every other live
\* server is a replica of it
C13_CrashRecovery ==
  (crashed /\ pc = "reconfigured" /\ err = "nil") =>
    \E a \in Live :
      /\ LiveMasters = {a}
      /\ \A b \in Live \ {a} : srv[b].role = "slave" /\ srv[b].master = a

\* a reconcile after the restart whose Reconfigure succeeded
C13_Witness ==
  /\ crashed
  /\ pc = "reconfigured"
  /\ err = "nil"
  /\ sent # {}

\* ------------------------------------------------------------ a stable world

\* the reconcile loop in a world where nothing but the operator acts: no server
\* stops (the poll of a promotion never times out), no replica finishes a handshake,
\* and the orchestrator accepts every write
NextStable ==
  \/ ReconcileSync("ok")
  \/ ListPods
  \/ NewPing
  \/ \E j \in 1..NumAddr : RefreshTask(j)
  \/ NewJoin
  \/ ReconfigureStart
  \/ PromotePoll
  \/ \E j \in 1..NumAddr : ReassignTask(j)
  \/ ReconfigureJoin
  \/ AfterReconfigure
  \/ \E giveUp \in BOOLEAN : SettleJoin(giveUp)
  \/ \E p \in 1..NumAddr : LabelTask(p, "ok")
  \/ LabelJoin
  \/ UpdateConfigMap("ok")
  \/ UpdateStatus("ok")
  \/ ReconcileReturn

SpecStable == Init /\ [][NextStable]_vars

PodIPs == {<<1, 2, 3>>, <<1, 1, 2>>, <<1, 2, 2>>, <<2, 1, 2>>}

InitWrites ==
  /\ \E w \in InitWorlds : srv = w.srv /\ cmMaster = w.cm
  /\ \E ips \in PodIPs :
       pods = [p \in Addr |-> [ip |-> ips[p], ready |-> TRUE, label |-> ""]]
  /\ child \in InitChildren
  /\ status = [replicas |-> 0, master |-> 0]
  /\ pc = "idle"
  /\ ins = <<>>
  /\ conns = 0
  /\ report = <<>>
  /\ args = <<>>
  /\ out = <<>>
  /\ failures = 0
  /\ mst = <<>>
  /\ todo = {}
  /\ errs = EmptyBag
  /\ sent = {}
  /\ err = "none"
  /\ podList = <<>>
  /\ master = NoAddr
  /\ masterChan = <<>>
  /\ result = [res |-> "none", at |-> "none"]
  /\ writes = {}
  /\ tries = 0
  /\ prevDone = FALSE
  /\ crashed = FALSE

\* the reconcile loop with an orchestrator that may refuse any write, any number of
\* times; the servers keep running
NextWrites ==
  \/ \E answer \in WriteAnswers : SyncChildren(answer) /\ UNCHANGED failures
  \/ ListPods
  \/ NewPing
  \/ \E j \in 1..NumAddr : RefreshTask(j)
  \/ NewJoin
  \/ ReconfigureStart
  \/ PromotePoll
  \/ \E j \in 1..NumAddr : ReassignTask(j)
  \/ ReconfigureJoin
  \/ AfterReconfigure
  \/ \E giveUp \in BOOLEAN : SettleJoin(giveUp)
  \/ \E p \in 1..NumAddr, answer \in WriteAnswers : LabelPod(p, answer) /\ UNCHANGED failures
  \/ LabelJoin
  \/ \E answer \in WriteAnswers : SyncConfigMap(answer) /\ UNCHANGED failures
  \/ \E answer \in WriteAnswers : WriteStatus(answer) /\ UNCHANGED failures
  \/ ReconcileReturn
  \/ \E b \in Addr : Sync(b)

SpecWrites == InitWrites /\ [][NextWrites]_vars

\* the listed pods whose IP is the master's address
MasterIPPods == {p \in 1..Len(podList) : podList[p].ip = master}

\* the orchestrator answered a write of the running reconcile with a conflict
Conflicted == \E w \in writes : w[2] = "conflict"

\* C16 as stated: a reconcile one of whose writes was answered with a conflict returns
\* a requeue and no error, whatever the other writes were answered
C16_ConflictRequeues ==
  (pc = "returned" /\ Conflicted) => result.res = "requeue"

\* C16: a reconcile one of whose writes was answered with a conflict returns a requeue
\* and no error, unless in the same label round another patch failed with an error
\* that is no conflict or a second pod reported the master's IP; then it returns the
\* error
C16_ConflictRequeuesUnlessPatchError ==
  (pc = "returned" /\ Conflicted) =>
    IF result.at = "label" /\ (<<"pod", "error">> \in writes \/ Cardinality(MasterIPPods) > 1)
    THEN result.res = "error"
    ELSE result.res = "requeue"

\* a label round with an accepted and a conflicting patch
C16_Witness ==
  /\ pc = "returned"
  /\ result = Return("requeue", "label")
  /\ <<"pod", "conflict">> \in writes
  /\ <<"pod", "ok">> \in writes

\* C17: when two listed pods have the master's IP, the label round ends with one
\* pod name in the master channel and one IP conflict error for the other pod;
\* Reconcile returns an error from the label round, and neither the ConfigMap step
\* nor the status step is reached or writes
C17_SharedMasterIPFails ==
  (Cardinality(MasterIPPods) = 2 /\ pc \in {"label", "configmap", "status", "returned"}
     /\ (pc = "returned" => result.at \in {"label", "configmap", "status"})) =>
    /\ pc \in {"label", "returned"}
    /\ pc = "label" /\ todo = {} =>
         (Len(masterChan) = 1 /\ CopiesIn("ipconflict", errs) = 1)
    /\ pc = "returned" =>
         /\ result = Return("error", "label")
         /\ Len(masterChan) = 1
         /\ masterChan[1] \in MasterIPPods
         /\ \A w \in writes : w[1] = "pod"

\* Reconcile returned from a label round in which two pods had the master's IP
C17_Witness ==
  /\ pc = "returned"
  /\ result.at = "label"
  /\ Cardinality(MasterIPPods) = 2
  /\ Len(masterChan) = 1

\* ------------------------------------------------------- repeated reconciles

\* a replica is in the handshake with a master that answers
Handshaking == \E b \in Addr : ENABLED Sync(b)

\* the backoff loop waiting for the updated INFO REPLICATION: it retries for
\* DefaultFailoverTimeout, seconds in which a pending handshake finishes, so it gives
\* up only when no handshake is pending
SettleWait(giveUp) ==
  /\ giveUp => ~Handshaking
  /\ SettleJoin(giveUp)

\* the steps of the operator: reconciles one after the other, with an orchestrator
\* that refuses a bounded number of writes
Reconciling ==
  \/ \E answer \in WriteAnswers : ReconcileSync(answer)
  \/ ListPods
  \/ NewPing
  \/ \E j \in 1..NumAddr : RefreshTask(j)
  \/ NewJoin
  \/ ReconfigureStart
  \/ PromotePoll
  \/ \E j \in 1..NumAddr : ReassignTask(j)
  \/ ReconfigureJoin
  \/ AfterReconfigure
  \/ \E giveUp \in BOOLEAN : SettleWait(giveUp)
  \/ \E p \in 1..NumAddr, answer \in WriteAnswers : LabelTask(p, answer)
  \/ LabelJoin
  \/ \E answer \in WriteAnswers : UpdateConfigMap(answer)
  \/ \E answer \in WriteAnswers : UpdateStatus(answer)
  \/ ReconcileReturn

\* the topologies of the controller, and one whose master has stopped while none of
\* its replicas may be promoted (spec.config sets replica-priority 0 for all)
LiveWorlds ==
  InitWorlds
  \cup {World(<<SlaveServer(3, FALSE, <<0, 1>>), SlaveServer(3, FALSE, <<0, 1>>), Down>>, 3)}

InitLive ==
  /\ \E w \in LiveWorlds : srv = w.srv /\ cmMaster = w.cm
  /\ child \in InitChildren
  /\ pc = "idle"
  /\ ins = <<>>
  /\ conns = 0
  /\ report = <<>>
  /\ args = <<>>
  /\ out = <<>>
  /\ NoReconcile

NextLive ==
  \/ Reconciling
  \/ \E b \in Addr : Sync(b)

\* the request is requeued or triggered again, so the operator always takes its next
\* step; a replica whose master answers finishes its handshake, which takes far less
\* than the seconds the backoff loop of a reconcile waits
SpecLive ==
  /\ InitLive
  /\ [][NextLive]_vars
  /\ WF_vars(Reconciling)
  /\ \A b \in Addr : SF_vars(Sync(b))

\* the status names a pod whose server answers with the master role, and counts the
\* listed pods whose servers answer
StatusCurrent ==
  /\ status.master \in Addr
  /\ srv[pods[status.master].ip].up
  /\ srv[pods[status.master].ip].role = "master"
  /\ status.replicas = Cardinality({p \in Addr : pods[p].ready /\ srv[pods[p].ip].up})

\* C14: when no server stops and no pod changes, and the orchestrator refuses only
\* finitely many writes, the reconciles return without requeue and without error
\* again and again, and from some point on the status always names the pod of a
\* server that has the master role, and the number of instances that answer
C14_StatusConverges ==
  /\ []<>Succeeded
  /\ <>[]StatusCurrent

\* a reconcile returned without requeue with the status naming the master
C14_Witness ==
  /\ Succeeded
  /\ prevDone
  /\ StatusCurrent

\* ------------------------------------------------------- a promotion that fails

\* C29: when the REPLICAOF NO ONE of a promotion failed, or the promoted replica did
\* not report itself a master before the poll gave up, the poll is over, Reconfigure
\* has returned the error, and the only REPLICAOF of the reconcile is the NO ONE sent
\* to the candidate: no instance was told to replicate from another one
C29_FailedPromotionReassignsNone ==
  err \in {"promote", "timeout"} =>
    /\ pc \in {"reconfigured", "returned"}
    /\ sent = Promotions
    /\ Cardinality(sent) = 1
    /\ todo = {}

\* Reconfigure returned after the promoted replica stopped answering, with another
\* instance in the set that was not reassigned
C29_Witness ==
  /\ pc = "reconfigured"
  /\ err = "timeout"
  /\ Len(ins) >= 2
  /\ Cardinality(Promotions) = 1

\* ------------------------------------------------------- two working masters

\* C28: when the set holds two or more working masters, Reconfigure has promoted
\* nobody, has kept the first of them in set order, and has sent REPLICAOF with that
\* first master's address, and nothing else, to every other working master and to
\* every replica of another working master that the first one does not list
C28_SplitBrainKeepsFirst ==
  (pc = "reconfigured" /\ Cardinality(WorkingPrimaries) >= 2) =>
    LET f == MinOf(WorkingPrimaries)
        others == WorkingPrimaries \ {f}
    IN /\ Promotions = {}
       /\ mst = <<ins[f]>>
       /\ \A c \in sent : c.master = ins[f].addr
       /\ \A o \in others : Cmd(o, ins[o].addr, ins[f].addr) \in sent
       /\ \A j \in 1..Len(ins) :
            (/\ ins[j].role = RoleReplica
             /\ \E o \in others : ins[j].mhost = ins[o].addr
             /\ ins[j].addr \notin ReplicaAddrs(ins[f]))
            => Cmd(j, ins[j].addr, ins[f].addr) \in sent

\* Reconfigure returned for two working masters, the second with a replica in the set
C28_Witness ==
  /\ pc = "reconfigured"
  /\ err = "nil"
  /\ Cardinality(WorkingPrimaries) = 2
  /\ \E j \in 1..Len(ins) :
       /\ ins[j].role = RoleReplica
       /\ ins[j].mhost # ins[MinOf(WorkingPrimaries)].addr
       /\ ins[j].mhost \in {ins[o].addr : o \in WorkingPrimaries}
       /\ Cmd(j, ins[j].addr, ins[MinOf(WorkingPrimaries)].addr) \in sent

\* ------------------------------------------------------------ the fan-outs

\* a goroutine of the running fan-out returns
TaskStep == pc' = pc /\ todo' # todo /\ todo' \subseteq todo

\* C26: in Refresh and in reconfigureAsReplicasOf every goroutine still to run can
\* run whatever the others did; a goroutine that runs ends only itself, queries or
\* commands its own instance, and leaves one error exactly when that instance does
\* not answer; the operation returns only when all goroutines have returned, and
\* with an error exactly when some goroutine left one
C26_TasksIndependent ==
  /\ [](pc \in {"newrefresh", "settle"} => \A j \in todo : ENABLED RefreshTask(j))
  /\ [](pc = "orphans" => \A j \in todo : ENABLED ReassignTask(j))
  /\ [][/\ (pc \in {"newrefresh", "settle"} /\ TaskStep) =>
            \E j \in todo :
              /\ todo' = todo \ {j}
              /\ BagCardinality(errs') =
                   BagCardinality(errs) + (IF srv[ins[j].addr].up THEN 0 ELSE 1)
        /\ (pc = "orphans" /\ TaskStep) =>
            \E j \in todo :
              /\ todo' = todo \ {j}
              /\ Cmd(j, ins[j].addr, mst[1].addr) \in sent'
              /\ BagCardinality(errs') =
                   BagCardinality(errs) + (IF srv[ins[j].addr].up THEN 0 ELSE 1)
        /\ (pc = "newrefresh" /\ pc' # pc) =>
            (todo = {} /\ (pc' = "returned" <=> BagCardinality(errs) > 0))
        /\ (pc = "settle" /\ (pc' # pc \/ tries' # tries)) =>
            (todo = {} /\ (BagCardinality(errs) > 0 => pc' # "label"))
        /\ (pc = "orphans" /\ pc' # pc) =>
            (todo = {} /\ (err' = "reassign" <=> BagCardinality(errs) > 0)
                       /\ (err' = "nil" <=> BagCardinality(errs) = 0))]_vars

\* reconfigureAsReplicasOf returned an error after one of its goroutines failed and
\* another one had its command accepted
C26_Witness ==
  /\ pc = "reconfigured"
  /\ err = "reassign"
  /\ \E c \in sent : c.master # NoAddr /\ ~srv[c.addr].up
  /\ \E c \in sent : c.master # NoAddr /\ srv[c.addr].up /\ srv[c.addr].master = c.master

\* the capacity of the error channel of the running fan-out: the number of its
\* goroutines
Capacity ==
  IF pc \in {"newrefresh", "settle"} THEN Len(ins)
  ELSE IF pc = "orphans" THEN Cardinality(Orphans(ins, mst[1]))
  ELSE IF pc = "label" THEN Len(podList)
  ELSE 0

\* C27: in Refresh, in reconfigureAsReplicasOf and in the label round the messages in
\* the error channel are never more than the goroutines that have returned, so with
\* those still to run they fit the channel's capacity and no send blocks; a goroutine
\* sends at most one message; the master channel never holds more than its one
\* slot; and the channel is emptied only when every goroutine has returned
C27_ErrorChannelBounded ==
  /\ [](/\ BagCardinality(errs) + Cardinality(todo) <= Capacity
        /\ Len(masterChan) <= 1)
  /\ [][/\ TaskStep => BagCardinality(errs') <= BagCardinality(errs) + 1
        /\ BagCardinality(errs') < BagCardinality(errs) => todo = {}]_vars

\* a fan-out in which every goroutine has returned and one of them has sent an error
C27_Witness ==
  /\ pc \in {"newrefresh", "settle", "orphans", "label"}
  /\ todo = {}
  /\ BagCardinality(errs) = 1
  /\ Capacity = NumAddr

\* ------------------------------------------------------- createOrUpdate

\* the writes of child resources the running reconcile has sent
ChildWrites == {w \in writes : w[1] = "child"}

\* C30: a call of createOrUpdate that writes is the only one of its reconcile that
\* does, and Reconcile returns after it: with a requeue when the write was accepted
\* or answered with a conflict, with an error otherwise; a child resource changes
\* only by such a write; and a reconcile that returned from the loop over the
\* children or from the ConfigMap step has sent exactly one write
C30_OneChildWrite ==
  /\ []((pc = "returned" /\ result.at \in {"sync", "configmap"}) =>
          Cardinality(ChildWrites) = 1)
  /\ [](Cardinality(ChildWrites) <= 1)
  /\ [][/\ (child' # child \/ cmMaster' # cmMaster) => <<"child", "ok">> \in writes' \ writes
        /\ \A answer \in WriteAnswers :
             <<"child", answer>> \in writes' \ writes =>
               /\ ChildWrites = {}
               /\ pc' = "returned"
               /\ result'.res = (IF answer = "error" THEN "error" ELSE "requeue")]_vars

\* the ConfigMap step wrote after the loop over the children had found them in sync
C30_Witness ==
  /\ pc = "returned"
  /\ result = Return("requeue", "configmap")
  /\ ChildWrites = {<<"child", "conflict">>}

\* ------------------------------------------------------ the order of the steps

\* the position of a step in Reconcile
Rank(p) ==
  CASE p = "idle" -> 0
    [] p = "list" -> 1
    [] p = "new" -> 2
    [] p = "newrefresh" -> 3
    [] p = "reconfigure" -> 4
    [] p \in {"poll", "orphans"} -> 5
    [] p = "reconfigured" -> 6
    [] p = "settle" -> 7
    [] p = "label" -> 8
    [] p = "configmap" -> 9
    [] p = "status" -> 10
    [] p = "returned" -> 11

\* C25 as stated: the ConfigMap step and the status step never run in a reconcile
\* one of whose earlier steps has written to the orchestrator
C25_NoStepAfterAWrite ==
  pc \in {"configmap", "status"} => writes = {}

\* C25: the steps of a reconcile run in the order child sync, New, Reconfigure,
\* backoff loop, label round, ConfigMap, status, and nothing runs after the return.
\* No instance is contacted in a reconcile whose child sync wrote; Reconfigure runs
\* only after New met the quorum and refreshed every instance; the label round runs
\* only after Reconfigure returned nil and the loop found a master address; the
\* ConfigMap step runs only when every patch of the label round was accepted (or
\* none was needed); the status step runs only when the ConfigMap needed no write
\* and names the master
C25_StepsInOrder ==
  /\ [](/\ (Rank(pc) \in 1..10 /\ pc # "configmap") => ChildWrites = {}
        /\ (pc = "returned" /\ result.at = "sync") => (ins = <<>> /\ sent = {} /\ conns = 0)
        /\ Rank(pc) \in 4..10 => QuorumMet(ins)
        /\ Rank(pc) \in 7..10 => err = "nil"
        /\ Rank(pc) \in 8..10 => (master # NoAddr /\ master = GetMasterAddress(ins))
        /\ Rank(pc) \in 9..10 => \A w \in writes : w = <<"pod", "ok">>
        /\ pc = "status" => (child[ConfigMapKind] = "ok" /\ cmMaster = master)
        /\ (\E w \in writes : w[1] = "status") => (pc = "returned" /\ result.at = "status"))
  /\ [][/\ pc' # pc => \/ Rank(pc') > Rank(pc)
                        \/ (pc = "poll" /\ pc' = "orphans")
                        \/ (pc = "returned" /\ pc' = "idle")
        /\ pc = "returned" =>
             (/\ <<child, cmMaster, status>>' = <<child, cmMaster, status>>
              /\ \A p \in Addr : pods'[p].label = pods[p].label
              /\ writes' \in {writes, {}}
              /\ sent' \in {sent, {}})]_vars

\* the status was written in a reconcile that had patched a pod's label
C25_Witness ==
  /\ pc = "returned"
  /\ result = Return("done", "status")
  /\ writes = {<<"pod", "ok">>, <<"status", "ok">>}
  /\ sent # {}

\* ------------------------------------------------- the generated child objects

\* A string is the sequence of its words, the line break a word of its own:
\* Sprintf("%s %s\n", k, v) is k \o v \o <<NL>>.
NL == "\n"

\* entries of Spec.Config
MaxConfig == 2

redisName == "redis"
exporterPort == 9121
hashAnnotationKey == "resource-revision-hash"
passwordHashKey == "redis-password-hash"
configMapMountPath == "/config/redis.conf"
secretMountPath == "/secret/auth.conf"
dataMountPath == "/data"
workingDir == dataMountPath
serviceTypeAll == 0
serviceTypeHeadless == 1
serviceTypeMaster == 2

\* the configuration directives that are ignored in Spec.Config
excludedConfigDirectives ==
  {<<"include">>, <<"bind">>, <<"protected-mode">>, <<"port">>, <<"daemonize">>,
   <<"dir">>, <<"replica-announce-ip">>, <<"replica-announce-port">>,
   <<"replicaof">>, <<"masterauth">>, <<"requirepass">>, <<"rename-command">>}

\* keys and values a user may write in Spec.Config (map[string]string, any string)
Configs ==
  LET keys == {<<"maxmemory">>, <<"replicaof">>, <<"dir">>, <<"replicaof", "10.0.0.9">>}
      values == {<<"1gb">>, <<"6379">>, <<"1gb", NL, "replicaof", "10.0.0.9", "6379">>}
  IN UNION {[K -> values] : K \in {S \in SUBSET keys : Cardinality(S) <= MaxConfig}}

\* the values of the referenced Secret; "" when the Redis has no Password.SecretKeyRef
Passwords == {"hunter22", "s3same"}

\* the Redis resources Reconcile hands to the generators: the name label is set, and
\* Spec.Annotations is a map when a password is referenced (redis_controller.go:78-98)
Redises ==
  {[name |-> "example", uid |-> "uid-1", labels |-> (redisName :> "example"),
    config |-> c, secretKeyRef |-> s, exporter |-> e, annotations |-> <<>>] :
     c \in Configs, s \in BOOLEAN, e \in BOOLEAN}

\* generateName: the name of every owned resource
generateName(r) == <<"redis", r.name>>

\* the orders in which range may visit the keys of a map
Orders(m) ==
  {o \in [1..Cardinality(DOMAIN m) -> DOMAIN m] :
     \A i, j \in DOMAIN o : i # j => o[i] # o[j]}

\* the loop of generateConfigMap over Spec.Config, visiting the keys in this order
RECURSIVE configLines(_, _)
configLines(config, order) ==
  IF order = <<>> THEN <<>>
  ELSE LET k == Head(order)
       IN (IF k \notin excludedConfigDirectives THEN k \o config[k] \o <<NL>> ELSE <<>>)
          \o configLines(config, Tail(order))

\* the lines generateConfigMap writes by itself for this Redis and this master
dirLine == <<"dir", workingDir>>
includeLine == <<"include", secretMountPath>>
replicaofLine(m) == <<"replicaof", ToString(m), ToString(Port)>>

generateConfigMap(r, m, order) ==
  [name |-> generateName(r),
   labels |-> r.labels,
   data |-> <<"#", "Generated", "by", "redis-operator", "for", r.name, NL>>
            \o dirLine \o <<NL>>
            \o (IF r.secretKeyRef THEN includeLine \o <<NL>> ELSE <<>>)
            \o configLines(r.config, order)
            \o (IF m # NoAddr THEN replicaofLine(m) \o <<NL>> ELSE <<>>)]

generateSecret(r, password) ==
  [name |-> generateName(r),
   labels |-> r.labels,
   data |-> <<"requirepass", password, NL, "masterauth", password, NL>>]

generateService(r, serviceType) ==
  LET labels == CASE serviceType = serviceTypeAll -> r.labels
                  [] serviceType = serviceTypeHeadless ->
                       ("service-type" :> "headless") @@ r.labels
                  [] serviceType = serviceTypeMaster ->
                       ("role" :> masterLabel) @@ r.labels
  IN [name |-> IF serviceType = serviceTypeAll THEN generateName(r)
               ELSE IF serviceType = serviceTypeHeadless
                    THEN generateName(r) \o <<"headless">>
                    ELSE generateName(r) \o <<masterLabel>>,
      labels |-> labels,
      ports |-> <<[name |-> redisName, port |-> Port]>>
                \o (IF r.exporter THEN <<[name |-> "exporter", port |-> exporterPort]>>
                    ELSE <<>>),
      selector |-> IF serviceType = serviceTypeMaster THEN labels ELSE r.labels,
      clusterIP |-> IF serviceType = serviceTypeHeadless THEN "None" ELSE ""]

generatePodDisruptionBudget(r) ==
  [name |-> generateName(r),
   labels |-> r.labels,
   minAvailable |-> MinimumFailoverSize,
   selector |-> r.labels]

\* argon2.IDKey and sha256: a digest names what it was computed from and holds
\* none of it
IDKey(password, salt) == [argon2id |-> <<password, salt>>]
hashObject(object) == [sha256 |-> object]

\* generateStatefulSet with the password written into the container's environment
generateStatefulSetPlainEnv(r, password) ==
  LET containers ==
        <<[name |-> redisName,
           args |-> <<configMapMountPath>>,
           env |-> IF r.secretKeyRef
                   THEN <<[name |-> "REDISCLI_AUTH", value |-> password]>>
                   ELSE <<>>]>>
      s == [name |-> generateName(r),
            labels |-> r.labels,
            annotations |-> <<>>,
            replicas |-> NumAddr,
            template |-> [labels |-> r.labels,
                          annotations |-> r.annotations,
                          containers |-> containers]]
  IN [s EXCEPT !.annotations = (hashAnnotationKey :> hashObject(s))]

generateStatefulSet(r, password) ==
  LET configMapMountName == generateName(r) \o <<"config">>
      secretMountName == generateName(r) \o <<"secret">>
      dataMountName == generateName(r) \o <<"data">>
      annotations == IF r.secretKeyRef
                     THEN (passwordHashKey :> IDKey(password, r.uid)) @@ r.annotations
                     ELSE r.annotations
      volumes == <<[name |-> configMapMountName, configMap |-> generateName(r)]>>
                 \o (IF r.secretKeyRef
                     THEN <<[name |-> secretMountName, secret |-> generateName(r)]>>
                     ELSE <<>>)
                 \o <<[name |-> dataMountName, emptyDir |-> TRUE]>>
      containers ==
        <<[name |-> redisName,
           args |-> <<configMapMountPath>>,
           env |-> IF r.secretKeyRef
                   THEN <<[name |-> "REDISCLI_AUTH", secretKeyRef |-> TRUE]>>
                   ELSE <<>>,
           volumeMounts |->
             <<[name |-> configMapMountName, mountPath |-> configMapMountPath]>>
             \o (IF r.secretKeyRef
                 THEN <<[name |-> secretMountName, mountPath |-> secretMountPath]>>
                 ELSE <<>>)
             \o <<[name |-> dataMountName, mountPath |-> dataMountPath]>>]>>
        \o (IF r.exporter
            THEN <<[name |-> "exporter",
                    args |-> <<"--web.listen-address=:", ToString(exporterPort)>>,
                    env |-> <<[name |-> "REDIS_ALIAS", fieldRef |-> "metadata.name"]>>
                            \o (IF r.secretKeyRef
                                THEN <<[name |-> "REDIS_PASSWORD", secretKeyRef |-> TRUE]>>
                                ELSE <<>>),
                    volumeMounts |-> <<>>]>>
            ELSE <<>>)
      s == [name |-> generateName(r),
            labels |-> r.labels,
            annotations |-> <<>>,
            replicas |-> NumAddr,
            template |-> [labels |-> r.labels,
                          annotations |-> annotations,
                          volumes |-> volumes,
                          containers |-> containers]]
  IN [s EXCEPT !.annotations = (hashAnnotationKey :> hashObject(s))]

\* the status Reconcile writes at its end: the size of the replication and the
\* name of the master's pod
newStatus(size, masterPodName) == [replicas |-> size, master |-> masterPodName]

\* everything Reconcile generates and writes for the arguments, the loop over
\* Spec.Config visiting its keys in this order
Generated(a, order) ==
  [secret |-> IF a.r.secretKeyRef THEN generateSecret(a.r, a.password) ELSE "none",
   configMap |-> generateConfigMap(a.r, a.master, order),
   services |-> [t \in {serviceTypeAll, serviceTypeHeadless, serviceTypeMaster} |->
                   generateService(a.r, t)],
   podDisruptionBudget |-> generatePodDisruptionBudget(a.r),
   statefulSet |-> generateStatefulSet(a.r, a.password),
   status |-> IF a.master # NoAddr THEN newStatus(NumAddr, a.master) ELSE "none"]

Generate(order) ==
  /\ pc = "generate"
  /\ pc' = "generated"
  /\ out' = Generated(args, order)
  /\ UNCHANGED <<srv, failures, ins, mst, todo, errs, sent, err, k8sVars, ctlVars>>
  /\ UNCHANGED <<conns, prevDone, crashed, report, args>>

\* the inputs of one round of generators: the Redis, the password read from the
\* Secret and the master (the zero address in the loop over the children)
InitGenerate ==
  /\ srv = World(<<M0, M0, M0>>, NoAddr).srv
  /\ cmMaster = NoAddr
  /\ child = [k \in 1..7 |-> "ok"]
  /\ ins = <<>>
  /\ pc = "generate"
  /\ conns = 0
  /\ prevDone = FALSE
  /\ crashed = FALSE
  /\ report = <<>>
  /\ \E r \in Redises, m \in Addr \cup {NoAddr} :
       \E p \in IF r.secretKeyRef THEN Passwords ELSE {""} :
         args = [r |-> r, password |-> p, master |-> m]
  /\ out = <<>>
  /\ NoReconcile

SpecGenerate ==
  InitGenerate /\ [][\E order \in Orders(args.r.config) : Generate(order)]_vars

\* the lines of a text, what stands between two line breaks, whose directive is
\* one of the excluded ones
ExcludedLines(s) ==
  LET ends == {i \in 1..Len(s) : s[i] = NL} \cup {Len(s) + 1}
      start(e) == IF \E i \in ends : i < e
                  THEN 1 + CHOOSE i \in ends : i < e /\ \A j \in ends : j < e => j <= i
                  ELSE 1
      lines == {SubSeq(s, start(e), e - 1) : e \in ends}
  IN {l \in lines : l # <<>> /\ <<l[1]>> \in excludedConfigDirectives}

\* the directives the controller writes into the body for these arguments
ControllerLines(a) ==
  {dirLine}
  \cup (IF a.r.secretKeyRef THEN {includeLine} ELSE {})
  \cup (IF a.master # NoAddr THEN {replicaofLine(a.master)} ELSE {})

\* C21: in every generated ConfigMap body, the lines whose directive is in the
\* deny-list (dir, include, replicaof, ...) are lines the controller itself wrote;
\* no line that comes from Spec.Config has a deny-listed directive
C21_NoDenyListedUserLine ==
  pc = "generated" => ExcludedLines(out.configMap.data) \subseteq ControllerLines(args)

\* a body was generated from a Spec.Config whose key holds a space, or whose value
\* holds a line break, before a deny-listed directive, and the body has that line
C21_Witness ==
  /\ pc = "generated"
  /\ \E k \in DOMAIN args.r.config : Len(k) > 1 \/ Len(args.r.config[k]) > 1
  /\ <<"replicaof", "10.0.0.9", "6379">> \in ExcludedLines(out.configMap.data)

\* the generated objects without the Secret, the StatefulSet without these annotations
\* of its pod template and without its own annotations when revision is set
Public(g, hidden, revision) ==
  [g EXCEPT !.secret = "none",
            !.statefulSet =
               [@ EXCEPT !.annotations = IF revision THEN <<>> ELSE @,
                         !.template.annotations =
                            [k \in DOMAIN @ \ hidden |-> @[k]]]]

\* the arguments with another value of the referenced Secret
OtherPasswords(a) ==
  {[a EXCEPT !.password = p] : p \in IF a.r.secretKeyRef THEN Passwords ELSE {""}}

\* C22 as stated: whatever the credential, the generated children other than the
\* Secret, and the status, are the same, apart from the password-hash annotation of
\* the StatefulSet's pod template
C22_OnlyPasswordHashDiffers ==
  pc = "generated" =>
    \A b \in OtherPasswords(args) : \E order \in Orders(b.r.config) :
      Public(Generated(b, order), {passwordHashKey}, FALSE)
        = Public(out, {passwordHashKey}, FALSE)

\* C22: whatever the credential, the generated children other than the Secret, and
\* the status, are the same, apart from two annotations of the StatefulSet: the
\* password hash of its pod template and the revision hash computed over the
\* StatefulSet that holds the password hash
C22_OnlyHashesDiffer ==
  pc = "generated" =>
    \A b \in OtherPasswords(args) : \E order \in Orders(b.r.config) :
      Public(Generated(b, order), {passwordHashKey}, TRUE)
        = Public(out, {passwordHashKey}, TRUE)

\* the children of a Redis with a password were generated: the Secret holds it, the
\* pod template holds its hash, and the status was built
C22_Witness ==
  /\ pc = "generated"
  /\ args.r.secretKeyRef
  /\ out.secret.data[2] = args.password
  /\ out.statefulSet.template.annotations[passwordHashKey] = IDKey(args.password, args.r.uid)
  /\ args.master # NoAddr
  /\ out.status = newStatus(NumAddr, args.master)

\* ------------------------------------------------------ the containment check

\* elements of a slice of the values compared
MaxLen == 2

\* A Go value: its type t, and what it holds: the number n of an int, the string s
\* of a string, the identity s of a func ("" is nil), the elements e of a slice
\* (s = "nil": the nil slice), the target e of a pointer and the dynamic value e of
\* an interface (<<>> is nil), the fields e of a struct, the entries e of a map.
Value(t, n, s, e) == [t |-> t, n |-> n, s |-> s, e |-> e]

Ints == {Value("int", n, "", <<>>) : n \in {0, 1}}
Strings == {Value("string", 0, s, <<>>) : s \in {"", "o"}}
\* func() values: nil and f
Funcs == {Value("func()", 0, s, <<>>) : s \in {"", "f"}}
Slices ==
  {Value("[]int", 0, "nil", <<>>)}
  \cup {Value("[]int", 0, "", e) : e \in UNION {[1..n -> Ints] : n \in 0..MaxLen}}
Pointers == {Value("*int", 0, "", e) : e \in {<<>>} \cup {<<i>> : i \in Ints}}
Interfaces ==
  {Value("interface{}", 0, "", e) :
     e \in {<<>>} \cup {<<v>> : v \in Ints \cup Strings \cup Funcs \cup Slices \cup Pointers}}
\* map[string]int: an entry holds its key in s and its value in e
Entry(k, v) == Value("entry", 0, k, <<v>>)

\* the values handed to deepContains, with those of
\* struct { Tslice []int; Tinterface interface{} } and of map[string]int
Values ==
  Ints \cup Strings \cup Funcs \cup Slices \cup Pointers \cup Interfaces
  \cup {Value("compositeStruct", 0, "", <<sl, i>>) :
          sl \in Slices,
          i \in {v \in Interfaces :
                   v.e = <<>> \/ v.e[1] \in Funcs \cup {Value("int", 1, "", <<>>)}}}
  \cup {Value("map[string]int", 0, "", e) :
          e \in {<<>>} \cup {<<Entry(k, v)>> : k \in {"a", "b"}, v \in Ints}
                \cup {<<Entry("a", v), Entry("b", w)>> : v, w \in Ints}}

Kind(v) ==
  CASE v.t = "int" -> "int"
    [] v.t = "string" -> "string"
    [] v.t = "func()" -> "func"
    [] v.t = "[]int" -> "slice"
    [] v.t = "*int" -> "ptr"
    [] v.t = "interface{}" -> "interface"
    [] v.t = "map[string]int" -> "map"
    [] OTHER -> "struct"

\* the empty-value predicate: empty string, zero number, nil handle, zero-length
\* sequence or mapping; a struct is never empty
isEmptyValue(v) ==
  CASE Kind(v) = "int" -> v.n = 0
    [] Kind(v) = "string" -> v.s = ""
    [] Kind(v) = "func" -> v.s = ""
    [] Kind(v) \in {"slice", "map", "ptr", "interface"} -> v.e = <<>>
    [] OTHER -> FALSE

RECURSIVE deepValueContains(_, _)

\* the containment check with a func contained in the same func
deepValueContainsSameFunc(v1, v2) ==
  IF v1.t # v2.t THEN FALSE
  ELSE IF isEmptyValue(v2) THEN TRUE
  ELSE CASE Kind(v1) = "func" -> v1.s = v2.s
         [] Kind(v1) \in {"slice", "struct", "ptr", "interface"} ->
              /\ Len(v2.e) <= Len(v1.e)
              /\ \A i \in 1..Len(v2.e) : deepValueContains(v1.e[i], v2.e[i])
         [] Kind(v1) = "map" ->
              \A i \in 1..Len(v2.e) : \E j \in 1..Len(v1.e) :
                v1.e[j].s = v2.e[i].s /\ deepValueContains(v1.e[j].e[1], v2.e[i].e[1])
         [] OTHER -> v1 = v2

\* the containment check with a slice contained only in a slice of its length
deepValueContainsSameLen(v1, v2) ==
  IF v1.t # v2.t THEN FALSE
  ELSE IF isEmptyValue(v2) THEN TRUE
  ELSE CASE Kind(v1) = "func" -> FALSE
         [] Kind(v1) \in {"slice", "struct", "ptr", "interface"} ->
              /\ Len(v2.e) = Len(v1.e)
              /\ \A i \in 1..Len(v2.e) : deepValueContains(v1.e[i], v2.e[i])
         [] Kind(v1) = "map" ->
              \A i \in 1..Len(v2.e) : \E j \in 1..Len(v1.e) :
                v1.e[j].s = v2.e[i].s /\ deepValueContains(v1.e[j].e[1], v2.e[i].e[1])
         [] OTHER -> v1 = v2

\* v1 contains v2: values of two types never; an empty v2 always; numbers and
\* strings when equal; a func never; a slice when it is not shorter and contains v2
\* element by element; a pointer, an interface and a struct when its target, its
\* dynamic value and each field contains that of v2; a map when it has every key
\* of v2 with a value that contains that of v2
deepValueContains(v1, v2) ==
  IF v1.t # v2.t THEN FALSE
  ELSE IF isEmptyValue(v2) THEN TRUE
  ELSE CASE Kind(v1) = "func" -> FALSE
         [] Kind(v1) \in {"slice", "struct", "ptr", "interface"} ->
              /\ Len(v2.e) <= Len(v1.e)
              /\ \A i \in 1..Len(v2.e) : deepValueContains(v1.e[i], v2.e[i])
         [] Kind(v1) = "map" ->
              \A i \in 1..Len(v2.e) : \E j \in 1..Len(v1.e) :
                v1.e[j].s = v2.e[i].s /\ deepValueContains(v1.e[j].e[1], v2.e[i].e[1])
         [] OTHER -> v1 = v2

\* deepContains reports whether x contains y
deepContains(x, y) == x.t = y.t /\ deepValueContains(x, y)

\* got.Spec.Ports is compared with want.Spec.Ports, and so is every other pair
Compare ==
  /\ pc = "compare"
  /\ pc' = "compared"
  /\ out' = deepContains(args[1], args[2])
  /\ UNCHANGED <<srv, failures, ins, mst, todo, errs, sent, err, k8sVars, ctlVars>>
  /\ UNCHANGED <<conns, prevDone, crashed, report, args>>

InitContains ==
  /\ srv = World(<<M0, M0, M0>>, NoAddr).srv
  /\ cmMaster = NoAddr
  /\ child = [k \in 1..7 |-> "ok"]
  /\ ins = <<>>
  /\ pc = "compare"
  /\ conns = 0
  /\ prevDone = FALSE
  /\ crashed = FALSE
  /\ report = <<>>
  /\ args \in Values \X Values
  /\ out = <<>>
  /\ NoReconcile

SpecContains == InitContains /\ [][Compare]_vars

\* the value holds a func that is not nil
RECURSIVE HoldsFunc(_)
HoldsFunc(v) ==
  \/ Kind(v) = "func" /\ v.s # ""
  \/ \E i \in 1..Len(v.e) : HoldsFunc(v.e[i])

\* C23 as stated: deepContains(x, x) is true for every value x, a value that holds
\* a func or an interface included, and deepContains(x, y) is false for x and y of
\* two types
C23_Reflexive ==
  pc = "compared" =>
    /\ args[1] = args[2] => out
    /\ args[1].t # args[2].t => ~out

\* C23: deepContains(x, x) is true for every value x that holds no func other than
\* nil, a value with an interface included, and false for every x that holds such a
\* func; deepContains(x, y) is false for x and y of two types
C23_ReflexiveButForFuncs ==
  pc = "compared" =>
    /\ args[1] = args[2] => (out <=> ~HoldsFunc(args[1]))
    /\ args[1].t # args[2].t => ~out

\* a struct whose interface field holds an int was compared with itself and is
\* contained
C23_Witness ==
  /\ pc = "compared"
  /\ args[1] = args[2]
  /\ Kind(args[1]) = "struct"
  /\ args[1].e[2].e # <<>>
  /\ ~HoldsFunc(args[1])
  /\ out

\* C24 as stated: a desired slice is contained in a current slice only if the two
\* have the same length and each element of current contains the element of desired
\* at its index; a desired slice shorter than current is not contained
C24_SameLength ==
  (pc = "compared" /\ Kind(args[1]) = "slice" /\ Kind(args[2]) = "slice" /\ out) =>
     /\ Len(args[2].e) = Len(args[1].e)
     /\ \A i \in 1..Len(args[2].e) : deepContains(args[1].e[i], args[2].e[i])

\* C24: a desired slice is contained in a current slice exactly when it is not
\* longer than current and each of its elements is zero or equal to the element of
\* current at its index; current may have more elements after those of desired
C24_NotLonger ==
  (pc = "compared" /\ Kind(args[1]) = "slice" /\ Kind(args[2]) = "slice") =>
     (out <=> /\ Len(args[2].e) <= Len(args[1].e)
              /\ \A i \in 1..Len(args[2].e) :
                   args[2].e[i].n = 0 \/ args[1].e[i] = args[2].e[i])

\* a desired slice of one element that is not zero was compared with a current
\* slice of two elements and is contained
C24_Witness ==
  /\ pc = "compared"
  /\ Kind(args[1]) = "slice" /\ Kind(args[2]) = "slice"
  /\ Len(args[1].e) = 2 /\ Len(args[2].e) = 1
  /\ args[2].e[1].n # 0
  /\ out

\* C33: whenever selectMaster returns an instance, the instance has the master role,
\* never the replica role, and every REPLICAOF host port that Reconfigure sends names
\* an instance with the master role
C33_SelectedIsMaster ==
  /\ selectMaster(ins) # <<>> => selectMaster(ins)[1].role = RoleMaster
  /\ pc = "orphans" => mst[1].role = RoleMaster

\* selectMaster returned the first instance, a replica with priority 0, and another
\* instance was sent REPLICAOF with the address of that replica
C33_Witness ==
  /\ pc = "orphans"
  /\ mst[1] = ins[1]
  /\ mst[1].role = RoleReplica /\ mst[1].prio = 0
  /\ \E c \in sent : c.master = mst[1].addr

\* C34: whenever Reconfigure goes on to the promotion (the set is not empty and
\* selectMaster returned nil), at least one instance is a replica with a priority
\* other than 0, so that the sorted candidates have a first element; and every
\* REPLICAOF NO ONE was sent to such a candidate
C34_PromotionHasCandidate ==
  /\ (pc = "reconfigure" /\ Len(ins) > 0 /\ selectMaster(ins) = <<>>) =>
       Candidates(ins) # {}
  /\ \A c \in Promotions : c.idx \in Candidates(ins)

\* Reconfigure found no master, promoted a candidate and is polling it
C34_Witness ==
  /\ pc = "poll"
  /\ selectMaster(ins) = <<>>
  /\ \E c \in Promotions : c.addr = mst[1].addr

\* C37: within one Reconfigure call at most one instance is sent REPLICAOF NO ONE,
\* every other REPLICAOF sent names one address, that of the chosen master, and the
\* chosen master is never sent REPLICAOF with its own address
C37_OneMasterPerReconfigure ==
  /\ Cardinality(Promotions) <= 1
  /\ \A c \in sent \ Promotions :
       /\ mst # <<>> /\ c.master = mst[1].addr
       /\ c.addr # mst[1].addr
  /\ \A c \in Promotions : mst # <<>> => c.addr = mst[1].addr

\* Reconfigure promoted a replica and sent REPLICAOF with its address to another
\* instance
C37_Witness ==
  /\ pc = "orphans"
  /\ Cardinality(Promotions) = 1
  /\ \E c \in sent : c.master = mst[1].addr /\ c.addr # mst[1].addr

\* C38: Reconfigure sends REPLICAOF NO ONE to no replica whose master_host
\* is the address of an instance of the set that has the master role
C38_LiveMasterNotReplaced ==
  [][\A c \in sent' \ sent :
       c.master = NoAddr =>
         ~\E j \in 1..Len(ins) :
            ins[j].addr = ins[c.idx].mhost /\ ins[j].role = RoleMaster]_vars

\* with every server up and every write accepted, a replica was promoted while the
\* instance it reports as its master is in the set with the master role and no
\* connected replica
C38_Witness ==
  /\ pc = "poll"
  /\ \E c \in Promotions : \E j \in 1..Len(ins) :
       /\ ins[j].addr = ins[c.idx].mhost
       /\ ins[j].role = RoleMaster
       /\ ins[j].conn = 0
       /\ srv[ins[j].addr].up
  /\ failures = 0

\* C36: refresh called with the report it was called with last leaves the record as
\* it is: in particular the list of replicas of a master is the list of that report
\* and does not grow from one refresh to the next
C36_RefreshIdempotent ==
  [][(/\ Len(report) >= 1
      /\ Len(report') = Len(report) + 1
      /\ report'[Len(report')] = LastReport) => ins' = ins]_vars

\* a record was refreshed twice with one report of a master with a connected replica
\* and lists more replicas than the report has slave lines
C36_Witness ==
  /\ Len(report) >= 2
  /\ report[Len(report) - 1] = LastReport
  /\ ins[1].role = RoleMaster
  /\ HasLine(LastReport, "slave")
  /\ Len(ins[1].replicas) > Cardinality({j \in 1..Len(LastReport) : LastReport[j].k = "slave"})

\* C35: whenever the label fan-out has finished with no error, so that Reconcile goes
\* on to the ConfigMap and to the receive from masterChan, the channel holds exactly
\* one pod name, the name of a listed pod whose IP is the selected master's address
C35_MasterChanHoldsOne ==
  pc \in {"configmap", "status"} =>
    /\ Len(masterChan) = 1
    /\ \E p \in 1..Len(podList) :
         podList[p].ip = master /\ podList[p].name = masterChan[1]

\* the fan-out finished with no error, the ConfigMap needed no update, and Reconcile
\* is about to receive the name of the master's pod, a pod whose IP is not its name
C35_Witness ==
  /\ pc = "status"
  /\ ~\E w \in writes : w[1] = "child"
  /\ Len(masterChan) = 1
  /\ pods[masterChan[1]].ip # masterChan[1]

\* C31: when a reconcile has returned without an error and without asking for a requeue,
\* the ConfigMap exists and its replicaof directive names the address the reconcile
\* found as the master, which is the address of an instance; and a reconcile that
\* wrote the status wrote no child object: the ConfigMap named that master before the
\* reconcile compared it, and the status names the pod that holds the address
C31_ConfigMapNamesMaster ==
  /\ [](/\ Succeeded =>
            /\ child[ConfigMapKind] = "ok"
            /\ master # NoAddr
            /\ cmMaster = master
            /\ \E j \in 1..Len(ins) : ins[j].addr = master
        /\ (\E w \in writes : w[1] = "status") =>
            /\ ChildWrites = {}
            /\ child[ConfigMapKind] = "ok"
            /\ cmMaster = master)
  /\ [][status' # status => (pc = "status" /\ cmMaster = master /\ cmMaster' = cmMaster)]_vars

\* a reconcile that reassigned no instance found the ConfigMap naming the master, wrote
\* nothing but the status and returned without asking for a requeue
C31_Witness ==
  /\ Succeeded
  /\ writes = {<<"status", "ok">>}
  /\ prevDone = FALSE
  /\ cmMaster = master
  /\ sent = {}

\* ------------------------------------------------------ the password's Secret

\* the password's Secret fetched only after the loop over the child resources
FetchPasswordFailsLate ==
  /\ pc = "idle"
  /\ Answered("error")
  /\ pc' = "returned"
  /\ result' = Return("error", "password")
  /\ LET k == FirstUnsynced
     IN IF k = 0
        THEN UNCHANGED <<child, cmMaster, writes>>
        ELSE /\ writes' = {<<"child", "ok">>}
             /\ child' = [child EXCEPT ![k] = "ok"]
             /\ cmMaster' = IF k = ConfigMapKind THEN NoAddr ELSE cmMaster
  /\ UNCHANGED <<srv, ins, mst, todo, errs, sent, err, pods, status, podList,
                 master, masterChan, tries>>
  /\ UNCHANGED <<conns, prevDone, crashed, report, args, out>>

\* Reconcile when the Get of the Secret that Spec.Password.SecretKeyRef names fails:
\* it returns the error before the loop over the child resources
FetchPasswordFails ==
  /\ pc = "idle"
  /\ Answered("error")
  /\ pc' = "returned"
  /\ result' = Return("error", "password")
  /\ UNCHANGED <<srv, ins, mst, todo, errs, sent, err, pods, child, cmMaster, status,
                 podList, master, masterChan, writes, tries>>
  /\ UNCHANGED <<conns, prevDone, crashed, report, args, out>>

NextPassword ==
  \/ Next
  \/ FetchPasswordFails

SpecPassword == Init /\ [][NextPassword]_vars

\* C32: a reconcile that cannot fetch the password's Secret returns an error and has
\* done nothing else: no child object, pod or status was written, no pod was listed,
\* no instance was contacted and no command was sent
C32_FetchFailureWritesNothing ==
  /\ []((pc = "returned" /\ result.at = "password") =>
          /\ result.res = "error"
          /\ writes = {}
          /\ sent = {}
          /\ ins = <<>>
          /\ podList = <<>>
          /\ conns = 0)
  /\ [][(pc # "returned" /\ pc' = "returned" /\ result'.at = "password") =>
          (/\ pc = "idle"
           /\ <<child, cmMaster, status, pods, srv>>' = <<child, cmMaster, status, pods, srv>>)]_vars

\* the fetch failed while the ConfigMap was missing and the status was out of date
C32_Witness ==
  /\ pc = "returned"
  /\ result = Return("error", "password")
  /\ child[ConfigMapKind] = "missing"
  /\ status = [replicas |-> 0, master |-> 0]

\* ---------------------------------------------------- the comparison of maps

MaxKeys == 2

\* the map[string]string values compared: the nil map and the maps from up to
\* MaxKeys keys to a value, the empty string among the values
StringMaps ==
  LET MapKeys == {<<"ok", "wow", "such">>[i] : i \in 1..MaxKeys}
      MapValues == {"", "lol"}
  IN {[nil |-> TRUE, kv |-> <<>>]}
     \cup {[nil |-> FALSE, kv |-> f] : f \in UNION {[d -> MapValues] : d \in SUBSET MapKeys}}

\* isSubset: no pair of b is missing in a or differs from a's
isSubset(a, b) ==
  \A k \in DOMAIN b.kv : ~(k \notin DOMAIN a.kv \/ b.kv[k] # a.kv[k])

\* mapsEqual without the comparison of the lengths
mapsEqualNoLen(a, b) == isSubset(a, b)

\* mapsEqual: the lengths are equal and b is a subset of a
mapsEqual(a, b) ==
  Cardinality(DOMAIN a.kv) = Cardinality(DOMAIN b.kv) /\ isSubset(a, b)

\* the two functions applied to a pair of maps, isSubset in both directions
CompareMaps ==
  /\ pc = "compare"
  /\ pc' = "compared"
  /\ out' = [equal |-> mapsEqual(args[1], args[2]),
             subset |-> isSubset(args[1], args[2]),
             superset |-> isSubset(args[2], args[1])]
  /\ UNCHANGED <<srv, failures, ins, mst, todo, errs, sent, err, k8sVars, ctlVars>>
  /\ UNCHANGED <<conns, prevDone, crashed, report, args>>

InitMaps ==
  /\ srv = World(<<M0, M0, M0>>, NoAddr).srv
  /\ cmMaster = NoAddr
  /\ child = [k \in 1..7 |-> "ok"]
  /\ ins = <<>>
  /\ pc = "compare"
  /\ conns = 0
  /\ prevDone = FALSE
  /\ crashed = FALSE
  /\ report = <<>>
  /\ args \in StringMaps \X StringMaps
  /\ out = <<>>
  /\ NoReconcile

SpecMaps == InitMaps /\ [][CompareMaps]_vars

\* C39: mapsEqual(a, b) is true exactly when a and b hold the same key-value pairs,
\* the nil map being equal to the empty one, which is exactly when isSubset(a, b) and
\* isSubset(b, a) are both true; isSubset(a, b) is true exactly when every pair of b
\* is a pair of a
C39_MapsEqualIsMutualSubset ==
  LET Pairs(m) == {<<k, m.kv[k]>> : k \in DOMAIN m.kv}
  IN pc = "compared" =>
       /\ out.subset = (Pairs(args[2]) \subseteq Pairs(args[1]))
       /\ out.superset = (Pairs(args[1]) \subseteq Pairs(args[2]))
       /\ out.equal = (Pairs(args[1]) = Pairs(args[2]))
       /\ out.equal = (out.subset /\ out.superset)

\* a nil map compared with the empty map
C39_Witness ==
  /\ pc = "compared"
  /\ args[1].nil /\ ~args[2].nil /\ args[2].kv = <<>>
  /\ out.equal /\ out.subset /\ out.superset

====
